---- MODULE Spec2Model ----
(***************************************************************************)
(* Session store of the MCQ simulator (src/src/App.tsx, lines 98-178):     *)
(* two localStorage slots (LS_KEY, LS_BACKUP) holding the serialized       *)
(* Store, and the operations loadStore, mutateStore, upsertSession and     *)
(* removeSession on them.                                                  *)
(*                                                                         *)
(* JavaScript values are tagged records [k |-> kind, v |-> payload]; an    *)
(* object is a function from the names of its own properties to values.    *)
(* A slot holds no item (Absent), the empty string, a text JSON.parse      *)
(* rejects, or a text JSON.parse accepts (identified with the value it     *)
(* parses to).                                                             *)
(*                                                                         *)
(* The drill of the same component (lines 180-206 and 264-370): the        *)
(* LS_DRILL_STATE slot, the pool built from the stored sessions, the       *)
(* weighted pick of the next item and the commit of an outcome.  Times     *)
(* are whole minutes, weights are fixed-point multiples of 1 / WeightUnit. *)
(*                                                                         *)
(* The session being solved, marked and archived (lines 208-262, 387-559   *)
(* and 1103-1142): the useState values as one record `quiz`, the interval  *)
(* of the timer effect with the render it belongs to as `timer`.  Times    *)
(* are whole seconds there.                                                *)
(*                                                                         *)
(* Two browser contexts that run mutateStore on the same slots, step by    *)
(* storage access, as `contexts`.                                          *)
(***************************************************************************)
EXTENDS Integers, Sequences, FiniteSets, TLC

VARIABLES primary, backup, last, created,
          drillSlot, view, drillSubject, drillState, drillPool, currentDrill, clock,
          quiz, timer, contexts

vars == <<primary, backup, last, created,
          drillSlot, view, drillSubject, drillState, drillPool, currentDrill, clock,
          quiz, timer, contexts>>

\* the state of the App component for the session being solved or marked
\* (lines 214-239), a record with one field for each useState, and the
\* interval of the timer effect (lines 388-405)
quizVars == <<quiz, timer>>

\* the LS_DRILL_STATE slot, the state of the App component the drill uses
\* (view, drillSubject, drillState, the memoized drillPool, currentDrill) and
\* the time Date.now() returns
drillVars == <<drillSlot, view, drillSubject, drillState, drillPool, currentDrill, clock>>

(* ------------------------------ bounds -------------------------------- *)

NumIds == 2

MaxFails == 2

\* the longest sessions list drawn as raw input of sanitize
MaxRaw == 2

\* the number of values Math.random() is drawn from
Grain == 2

\* the most sessions in a store the drill starts from
MaxSessions == 3

\* the most outcomes committed in one run of the drill
MaxAnswered == 2

\* the most questions of a session that is started
MaxQuestions == 2

\* the most sessions started in one run
MaxStarts == 1

\* the most one-second ticks counted for one question
MaxSec == 1

\* the most seconds that pass while no interval runs
MaxWait == 1

IdNames == <<"a", "b", "c", "d", "e">>

Ids == {IdNames[i] : i \in 1..NumIds}

(* --------------------------- JavaScript values ------------------------ *)

Undef == [k |-> "undef"]

Null == [k |-> "null"]

Num(n) == [k |-> "num", v |-> n]

Str(s) == [k |-> "str", v |-> s]

Bool(b) == [k |-> "bool", v |-> b]

Arr(q) == [k |-> "arr", v |-> q]

Obj(f) == [k |-> "obj", v |-> f]

\* the result of a call that raised instead of returning
Threw == [k |-> "threw"]

\* x ?? d
Coalesce(x, d) == IF x.k \in {"undef", "null"} THEN d ELSE x

\* !!x
Truthy(x) ==
    CASE x.k \in {"undef", "null"} -> FALSE
      [] x.k = "bool" -> x.v
      [] x.k = "num" -> x.v # 0
      [] x.k = "str" -> x.v # ""
      [] OTHER -> TRUE

\* x.f (and x?.f) on a value that is neither null nor undefined
Get(x, f) == IF x.k = "obj" /\ f \in DOMAIN x.v THEN x.v[f] ELSE Undef

IsArray(x) == x.k = "arr"

\* q.findIndex((x) => x.id === id), 1-based, 0 when no element matches
\* (JavaScript: -1)
FindIndex(q, id) ==
    IF \E i \in 1..Len(q) : Get(q[i], "id") = id
    THEN CHOOSE i \in 1..Len(q) :
            /\ Get(q[i], "id") = id
            /\ \A j \in 1..(i - 1) : Get(q[j], "id") # id
    ELSE 0

(* ------------------------------ sanitize ------------------------------ *)

\* normalizeAnswer without defaults for pinned and screenshot: the two fields
\* are copied when the raw answer holds them
normalizeAnswerOld(raw) ==
    Obj([f \in {"choice", "other", "correctChoice", "explanation"}
              \cup ({"pinned", "screenshot"} \cap (IF raw.k = "obj" THEN DOMAIN raw.v ELSE {})) |->
            CASE f \in {"choice", "correctChoice"} -> Coalesce(Get(raw, f), Null)
              [] f \in {"other", "explanation"} -> Coalesce(Get(raw, f), Str(""))
              [] OTHER -> Get(raw, f)])

normalizeAnswer(raw) ==
    Obj([choice        |-> Coalesce(Get(raw, "choice"), Null),
         other         |-> Coalesce(Get(raw, "other"), Str("")),
         correctChoice |-> Coalesce(Get(raw, "correctChoice"), Null),
         explanation   |-> Coalesce(Get(raw, "explanation"), Str("")),
         pinned        |-> Coalesce(Get(raw, "pinned"), Bool(FALSE)),
         screenshot    |-> Coalesce(Get(raw, "screenshot"), Null)])

\* isSession without the test of perQuestionSec
isSessionNoTimes(s) ==
    /\ Truthy(s)
    /\ Get(s, "id").k = "str"
    /\ IsArray(Get(s, "answers"))

isSession(s) ==
    /\ Truthy(s)
    /\ Get(s, "id").k = "str"
    /\ IsArray(Get(s, "answers"))
    /\ IsArray(Get(s, "perQuestionSec"))

\* { subject, version, ...s, answers }: the own properties of s override the
\* defaults computed for subject and version; answers is always replaced
addMissingFields(s) ==
    LET sub == Get(s, "subject")
        subject == IF sub \in {Str("math1"), Str("math2"), Str("physics")}
                   THEN sub ELSE Str("math1")
        answers == IF IsArray(Get(s, "answers"))
                   THEN Arr([i \in 1..Len(Get(s, "answers").v) |->
                                normalizeAnswer(Get(s, "answers").v[i])])
                   ELSE Arr(<< >>)
    IN  Obj([f \in DOMAIN s.v \cup {"subject", "version", "answers"} |->
                IF f = "answers" THEN answers
                ELSE IF f \in DOMAIN s.v THEN s.v[f]
                ELSE IF f = "subject" THEN subject
                ELSE Num(1)])

\* null when the value is no Store, else the Store of its salvaged sessions
sanitize(store) ==
    IF ~Truthy(store) \/ store.k \notin {"obj", "arr"} THEN Null
    ELSE IF ~IsArray(Get(store, "sessions")) THEN Null
    ELSE LET sane == SelectSeq(Get(store, "sessions").v, isSession)
         IN  Obj([sessions |-> Arr([i \in 1..Len(sane) |-> addMissingFields(sane[i])])])

(* --------------------------- serialization ---------------------------- *)

Absent == [k |-> "absent"]

EmptyText == [k |-> "text", json |-> FALSE, empty |-> TRUE]

Garbage == [k |-> "text", json |-> FALSE, empty |-> FALSE]

Json(val) == [k |-> "text", json |-> TRUE, empty |-> FALSE, v |-> val]

\* the value JSON.stringify serializes: properties whose value is undefined
\* are omitted, undefined array elements become null
RECURSIVE Jsonify(_)
Jsonify(x) ==
    CASE x.k = "obj" ->
            LET keep == {f \in DOMAIN x.v : x.v[f].k # "undef"}
            IN  Obj([f \in keep |-> Jsonify(x.v[f])])
      [] x.k = "arr" ->
            Arr([i \in 1..Len(x.v) |->
                    IF x.v[i].k = "undef" THEN Null ELSE Jsonify(x.v[i])])
      [] OTHER -> x

JsonStringify(x) == Json(Jsonify(x))

\* JSON.parse(raw) returns (otherwise it throws SyntaxError)
Parses(raw) == raw.k = "text" /\ raw.json

JsonParse(raw) == raw.v

(* ------------------------------ storage ------------------------------- *)

\* The places where one call touches localStorage; a set of them is the set of
\* accesses that throw during the call.  loadStore reads LS_KEY once (r_key),
\* writes LS_KEY at most once (w_key) and LS_BACKUP at most once (w_bak); it
\* reads LS_BACKUP at line 134 (r_bak) or at line 141 (r_bak2), or at both.
\* mutateStore then reads LS_KEY (m_r_key) and writes LS_BACKUP (m_w_bak) and
\* LS_KEY (m_w_key).
LoadPoints == {"r_key", "r_bak", "r_bak2", "w_key", "w_bak"}

AccessPoints == LoadPoints \cup {"m_r_key", "m_w_bak", "m_w_key"}

\* localStorage.getItem: the item, null (Absent) when there is none; it throws
\* when the access fails
getItem(slot, ok) == IF ok THEN slot ELSE Threw

\* readRaw without its try/catch
readRawNoCatch(slot, ok) == getItem(slot, ok)

\* readRaw: try { return localStorage.getItem(key) } catch { return null }
readRaw(slot, ok) == IF getItem(slot, ok) = Threw THEN Absent ELSE getItem(slot, ok)

\* writeRaw: the slot after the call; a throwing setItem leaves it as it was
writeRaw(slot, value, ok) == IF ok THEN value ELSE slot

\* !raw for a string-or-null
Falsy(raw) == raw = Absent \/ raw = EmptyText

EmptyStore == Obj([sessions |-> Arr(<< >>)])

\* the reset without line 127 / 152: the backup keeps what it held
ResetPrimaryOnly(p, b, fails) ==
    [ret |-> EmptyStore,
     p   |-> writeRaw(p, Json(Obj([sessions |-> Arr(<< >>)])), "w_key" \notin fails),
     b   |-> b]

\* lines 125-128 and 150-153: both slots are reset to the empty Store
ResetBoth(p, b, fails) ==
    [ret |-> EmptyStore,
     p   |-> writeRaw(p, JsonStringify(EmptyStore), "w_key" \notin fails),
     b   |-> writeRaw(b, JsonStringify(EmptyStore), "w_bak" \notin fails)]

\* lines 138 and 146: the backup's Store is written to LS_KEY and returned
Promote(p, b, cleanB, fails) ==
    [ret |-> cleanB,
     p   |-> writeRaw(p, JsonStringify(cleanB), "w_key" \notin fails),
     b   |-> b]

\* What the code makes of one item it read: "none" when `if (raw)` skips it,
\* "throws" when JSON.parse raises, else "ok" with the result of sanitize
\* (null for a value that is no Store); "raised" when the read itself raised
Decode(raw) ==
    IF raw = Threw THEN [st |-> "raised", clean |-> Null]
    ELSE IF Falsy(raw) THEN [st |-> "none", clean |-> Null]
    ELSE IF ~Parses(raw) THEN [st |-> "throws", clean |-> Null]
    ELSE [st |-> "ok", clean |-> sanitize(JsonParse(raw))]

Usable(d) == d.st = "ok" /\ d.clean # Null

\* an exception that leaves loadStore: nothing more is written
Raise(p, b) == [ret |-> Threw, p |-> p, b |-> b]

\* lines 140-153: the catch block, then the reset
CatchBlock(p, b, fails, db2) ==
    IF db2.st = "raised" THEN Raise(p, b)
    ELSE IF Usable(db2) THEN Promote(p, b, db2.clean, fails)
    ELSE ResetBoth(p, b, fails)

\* loadStore without lines 124-129: JSON.parse(null) is null, which is no
\* Store, so an absent primary falls back to the backup like a corrupt one
LoadFromNoAbsentBranch(p, b, fails, dp, db, db2) ==
    CASE dp.st = "raised" -> Raise(p, b)
      [] Usable(dp) -> [ret |-> dp.clean, p |-> p, b |-> b]
      [] dp.st \in {"none", "ok"} /\ ~Usable(dp) /\ Usable(db) -> Promote(p, b, db.clean, fails)
      [] dp.st = "throws" \/ (~Usable(dp) /\ db.st \in {"throws", "raised"})
            -> CatchBlock(p, b, fails, db2)
      [] OTHER -> ResetBoth(p, b, fails)

\* lines 124-153 with dp the primary item as read at line 123, db the backup
\* item as read at line 134 (try block) and db2 as read at line 141 (catch)
LoadFrom(p, b, fails, dp, db, db2) ==
    CASE dp.st = "raised" -> Raise(p, b)
      [] dp.st = "none" -> ResetBoth(p, b, fails)
      [] Usable(dp) -> [ret |-> dp.clean, p |-> p, b |-> b]
      \* line 134: the primary parsed but is no Store
      [] dp.st = "ok" /\ ~Usable(dp) /\ Usable(db) -> Promote(p, b, db.clean, fails)
      \* line 140: something in the try block threw
      [] dp.st = "throws" \/ (dp.st = "ok" /\ ~Usable(dp) /\ db.st \in {"throws", "raised"})
            -> CatchBlock(p, b, fails, db2)
      [] OTHER -> ResetBoth(p, b, fails)

\* loadStore() on slots p (LS_KEY) and b (LS_BACKUP): the value returned and
\* the slots afterwards
loadStore(p, b, fails) ==
    LoadFrom(p, b, fails,
             Decode(readRaw(p, "r_key" \notin fails)),
             Decode(readRaw(b, "r_bak" \notin fails)),
             Decode(readRaw(b, "r_bak2" \notin fails)))

(* ----------------------------- transforms ----------------------------- *)

\* The transform handed to mutateStore, applied to the Store st it receives:
\* [threw, out, arg] = whether it raised, the value it returned, and st as the
\* transform left it (the closures of upsertSession and removeSession edit st
\* in place and return it).
SetSessions(st, q) == Obj([f \in DOMAIN st.v \cup {"sessions"} |->
                              IF f = "sessions" THEN q ELSE st.v[f]])

\* the closure without `if (i >= 0) st.sessions[i] = s`: a session whose id is
\* present is left as stored
UpsertNoReplace(s, st) ==
    LET q == Get(st, "sessions").v
        q2 == IF FindIndex(q, Get(s, "id")) > 0 THEN q ELSE <<s>> \o q
    IN  [threw |-> FALSE, out |-> SetSessions(st, Arr(q2)),
         arg |-> SetSessions(st, Arr(q2))]

\* the closure with push in place of unshift
UpsertPush(s, st) ==
    LET q == Get(st, "sessions").v
        i == FindIndex(q, Get(s, "id"))
        q2 == IF i > 0 THEN [q EXCEPT ![i] = s] ELSE q \o <<s>>
    IN  [threw |-> FALSE, out |-> SetSessions(st, Arr(q2)),
         arg |-> SetSessions(st, Arr(q2))]

\* the closure without findIndex: every call unshifts
UpsertAlwaysUnshift(s, st) ==
    [threw |-> FALSE,
     out |-> SetSessions(st, Arr(<<s>> \o Get(st, "sessions").v)),
     arg |-> SetSessions(st, Arr(<<s>> \o Get(st, "sessions").v))]

\* lines 167-171: (st) => { i = findIndex(x.id === s.id); replace or unshift }
UpsertFn(s, st) ==
    LET q == Get(st, "sessions").v
        i == FindIndex(q, Get(s, "id"))
        q2 == IF i > 0 THEN [q EXCEPT ![i] = s] ELSE <<s>> \o q
    IN  IF s.k \in {"undef", "null"} /\ q # << >>
        THEN [threw |-> TRUE, out |-> Undef, arg |-> st]
        ELSE [threw |-> FALSE, out |-> SetSessions(st, Arr(q2)),
              arg |-> SetSessions(st, Arr(q2))]

\* the closure with the filter's test inverted (s.id === id)
RemoveKeepsMatching(id, st) ==
    LET SameId(x) == Get(x, "id") = id
        q2 == SelectSeq(Get(st, "sessions").v, SameId)
    IN  [threw |-> FALSE, out |-> SetSessions(st, Arr(q2)),
         arg |-> SetSessions(st, Arr(q2))]

\* lines 174-177: (st) => { st.sessions = st.sessions.filter(s.id !== id) }
RemoveFn(id, st) ==
    LET OtherId(x) == Get(x, "id") # id
        q2 == SelectSeq(Get(st, "sessions").v, OtherId)
    IN  [threw |-> FALSE, out |-> SetSessions(st, Arr(q2)),
         arg |-> SetSessions(st, Arr(q2))]

Apply(fn, st) ==
    CASE fn.f = "upsert" -> UpsertFn(fn.s, st)
      [] fn.f = "remove" -> RemoveFn(fn.id, st)
      [] fn.f = "identity" -> [threw |-> FALSE, out |-> st, arg |-> st]
      \* (st) => null
      [] fn.f = "returnNull" -> [threw |-> FALSE, out |-> Null, arg |-> st]
      \* (st) => { st.sessions = 5; return st }
      [] fn.f = "sessionsNotList" ->
            [threw |-> FALSE, out |-> SetSessions(st, Num(5)),
             arg |-> SetSessions(st, Num(5))]
      \* (st) => { st.sessions.length = 0; return 7 }
      [] fn.f = "clearReturnNumber" ->
            [threw |-> FALSE, out |-> Num(7),
             arg |-> SetSessions(st, Arr(<< >>))]

(* ----------------------------- mutateStore ---------------------------- *)

\* fn(current) without structuredClone: `current` is the object fn edited
currentAliased(current, argAfter) == argAfter

\* `current` after fn(structuredClone(current)) returned: fn edited the clone
currentAfterFn(current, argAfter) == current

\* lines 161-163 with the backup taken after the primary was written
CommitBackupAfter(r, old, clean, fails) ==
    [r EXCEPT !.p = writeRaw(@, Json(Jsonify(clean)), "m_w_key" \notin fails),
              !.b = writeRaw(@, Json(Jsonify(clean)), "m_w_bak" \notin fails),
              !.ret = clean,
              !.valid = TRUE]

\* lines 161-163: the backup of the old primary, then the write of the new one
Commit(r, old, clean, fails) ==
    IF old = Threw THEN [r EXCEPT !.ret = Threw]
    ELSE
    [r EXCEPT !.p = writeRaw(@, JsonStringify(clean), "m_w_key" \notin fails),
              !.b = IF Falsy(old) THEN @ ELSE writeRaw(@, old, "m_w_bak" \notin fails),
              !.ret = clean,
              !.valid = TRUE]

\* lines 159-164 with ld the result of loadStore, t the outcome of the
\* transform and clean the result of sanitize on the transform's output
Finish(ld, t, clean, fails) ==
    IF t.threw THEN [ld EXCEPT !.ret = Threw] @@ [cur |-> ld.ret, mid |-> ld.p, valid |-> FALSE]
    ELSE IF clean = Null
    THEN [ld EXCEPT !.ret = currentAfterFn(@, t.arg)]
         @@ [cur |-> ld.ret, mid |-> ld.p, valid |-> FALSE]
    ELSE Commit(ld @@ [cur |-> ld.ret, mid |-> ld.p, valid |-> FALSE],
                readRaw(ld.p, "m_r_key" \notin fails), clean, fails)

\* mutateStore without the sanitize of line 159: the transform's output is
\* written as returned
TransformedUnchecked(ld, t, fails) == Finish(ld, t, t.out, fails)

Transformed(ld, t, fails) == Finish(ld, t, sanitize(t.out), fails)

\* line 157: an exception out of loadStore leaves mutateStore at once
Loaded(ld, fn, fails) ==
    IF ld.ret = Threw THEN ld @@ [cur |-> Null, mid |-> ld.p, valid |-> FALSE]
    ELSE Transformed(ld, Apply(fn, ld.ret), fails)

\* mutateStore(fn): the value returned (Threw when fn raised), the slots
\* afterwards, the Store it loaded (cur), the primary slot as loadStore left
\* it (mid), and whether the transform's output passed sanitize (valid)
mutateStore(p, b, fn, fails) == Loaded(loadStore(p, b, fails), fn, fails)

(* ------------------------------- inputs ------------------------------- *)

FullAnswer ==
    Obj([choice |-> Str("A"), other |-> Str(""), correctChoice |-> Null,
         explanation |-> Str(""), pinned |-> Bool(FALSE), screenshot |-> Null])

\* an answer written before correctChoice, explanation, pinned and screenshot
\* were added to the Answer type
PartialAnswer == Obj([choice |-> Str("B"), other |-> Str("x")])

\* a session as startQuiz and doSubmit write it
FullSession(id) ==
    Obj([id |-> Str(id), name |-> Str("full"), subject |-> Str("physics"),
         version |-> Num(1), answers |-> Arr(<<FullAnswer>>),
         perQuestionSec |-> Arr(<<Num(3)>>)])

\* a session without the optional subject and version, with an answer that
\* lacks fields, and with an own property whose value is undefined
BareSession(id) ==
    Obj([id |-> Str(id), name |-> Str("bare"), endedAt |-> Undef,
         answers |-> Arr(<<PartialAnswer>>), perQuestionSec |-> Arr(<<Num(0)>>)])

WellFormedSessions == {FullSession(id) : id \in Ids} \cup {BareSession(id) : id \in Ids}

\* arguments that fail isSession: no answers list, an id that is no string,
\* no object at all
NoAnswers(id) == Obj([id |-> Str(id), name |-> Str("broken"),
                      perQuestionSec |-> Arr(<< >>)])

NumericId == Obj([id |-> Num(1), answers |-> Arr(<< >>),
                  perQuestionSec |-> Arr(<< >>)])

IllFormedSessions == {NoAnswers(id) : id \in Ids} \cup {NumericId, Null}

UpsertArgs == WellFormedSessions \cup IllFormedSessions

NoFn == [f |-> "none"]

Transforms == {[f |-> "identity"], [f |-> "returnNull"],
               [f |-> "sessionsNotList"], [f |-> "clearReturnNumber"]}

InvalidTransforms == Transforms \ {[f |-> "identity"]}

StoreOf(q) == Obj([sessions |-> Arr(q)])

\* what a slot may hold when the program starts
SlotValues ==
    {Absent, EmptyText, Garbage,
     Json(Null), Json(Arr(<< >>)), Json(Obj([sessions |-> Num(5)])),
     Json(EmptyStore),
     Json(StoreOf(<<Jsonify(BareSession(IdNames[1])),
                    Obj([name |-> Str("junk")])>>))}
    \cup {Json(StoreOf(<<FullSession(id)>>)) : id \in Ids}

\* Raw values for sanitize: what JSON.parse may return for a slot written by
\* an older version of the program, by hand or by another program.  Elements
\* of a sessions list: values that are no object, objects that lack one of the
\* three fields isSession tests or hold it with another type, and objects
\* that pass isSession with a subject outside the enumeration, a null subject,
\* no subject, and answers that are null, no object, partial or complete.
OddAnswer ==
    Obj([choice |-> Null, pinned |-> Str("yes"), screenshot |-> Str("img"),
         extra |-> Num(1)])

RawElements ==
    {Null, Str("text"), Num(0), Arr(<< >>),
     Obj([name |-> Str("noId"), answers |-> Arr(<< >>), perQuestionSec |-> Arr(<< >>)]),
     NumericId,
     NoAnswers(IdNames[1]),
     Obj([id |-> Str(IdNames[1]), name |-> Str("noTimes"), answers |-> Arr(<< >>)]),
     Obj([id |-> Str(IdNames[1]), name |-> Str("answersNoList"),
          answers |-> Str("AB"), perQuestionSec |-> Arr(<< >>)]),
     Obj([id |-> Str(""), name |-> Str("emptyId"), subject |-> Str("math2"),
          answers |-> Arr(<< >>), perQuestionSec |-> Arr(<< >>)]),
     Obj([id |-> Str(IdNames[1]), name |-> Str("chemistry"),
          subject |-> Str("chemistry"),
          answers |-> Arr(<<Null, Str("junk")>>),
          perQuestionSec |-> Arr(<<Num(1), Num(2)>>)]),
     Obj([id |-> Str(IdNames[2]), name |-> Str("nullSubject"), subject |-> Null,
          version |-> Num(2), answers |-> Arr(<<OddAnswer, PartialAnswer>>),
          perQuestionSec |-> Arr(<< >>)]),
     FullSession(IdNames[1]),
     Jsonify(BareSession(IdNames[2]))}

RawLists == UNION {[1..n -> RawElements] : n \in 0..MaxRaw}

RawStores ==
    {Null, Num(7), Str("store"), Bool(TRUE), Arr(<< >>),
     Obj([name |-> Str("noSessions")]),
     Obj([sessions |-> Obj([a |-> FullSession(IdNames[1])])]),
     Obj([sessions |-> Null])}
    \cup {Obj([sessions |-> Arr(q), note |-> Str("more")]) : q \in RawLists}

(* -------------------------------- drill ------------------------------- *)

\* Timestamps (Date.now(), startedAt, endedAt, lastReviewedAt) are counted in
\* whole minutes; the code divides their differences by 1000 * 60 * 60 to get
\* hours, so n hours are HourMin * n here.  The numeric fields the scheduler
\* computes with (startNum, startedAt, endedAt, perQuestionSec, lastTimeSec)
\* hold numbers or are missing in every input of the model.
HourMin == 60

\* `${x}` in a template literal
ToText(x) ==
    CASE x.k = "str" -> x.v
      [] x.k = "num" -> ToString(x.v)
      [] x.k = "null" -> "null"
      [] OTHER -> "undefined"

\* (a ?? [])[i], with i counted from 1
At(a, i) == IF a.k = "arr" /\ i \in 1..Len(a.v) THEN a.v[i] ELSE Undef

\* text.trim() on the explanations of the model
Trim(x) ==
    CASE x = Str(" ") -> Str("")
      [] x = Str(" why ") -> Str("why")
      [] OTHER -> x

\* lines 289-302: the DrillItem of answer i of session s
DrillItemOf(s, i) ==
    [key |-> ToText(Get(s, "subject")) \o "|"
                \o ToString(Coalesce(Get(s, "startNum"), Num(0)).v + (i - 1)),
     subject |-> Coalesce(Get(s, "subject"), Str("math1")),
     question |-> Coalesce(Get(s, "startNum"), Num(0)).v + (i - 1),
     correctChoice |-> normalizeAnswer(At(Get(s, "answers"), i)).v["correctChoice"],
     explanation |-> Trim(normalizeAnswer(At(Get(s, "answers"), i)).v["explanation"]),
     screenshot |-> normalizeAnswer(At(Get(s, "answers"), i)).v["screenshot"],
     other |-> normalizeAnswer(At(Get(s, "answers"), i)).v["other"],
     lastWrongAt |-> Coalesce(Get(s, "endedAt"), Coalesce(Get(s, "startedAt"), Num(0))).v,
     historicSec |-> Coalesce(At(Get(s, "perQuestionSec"), i), Num(0)).v]

\* lines 303-304: prev = map.get(key); if (!prev || rec.lastWrongAt >
\* prev.lastWrongAt) map.set(key, rec).  The Map is the sequence of its values
\* in insertion order; setting a key that is present keeps its place.
MapPut(map, rec) ==
    IF \E n \in 1..Len(map) : map[n].key = rec.key
    THEN LET n == CHOOSE n \in 1..Len(map) : map[n].key = rec.key
         IN  IF rec.lastWrongAt > map[n].lastWrongAt
             THEN [map EXCEPT ![n] = rec] ELSE map
    ELSE Append(map, rec)

\* lines 284-306: the Map after the scan of sessions n, n+1, ... from answer i
\* of session n on
RECURSIVE PoolScan(_, _, _, _)
PoolScan(sessions, n, i, map) ==
    IF n > Len(sessions) THEN map
    ELSE IF i > Len(Coalesce(Get(sessions[n], "answers"), Arr(<< >>)).v)
    THEN PoolScan(sessions, n + 1, 1, map)
    ELSE IF At(Get(sessions[n], "correctFlags"), i) # Bool(FALSE)
    THEN PoolScan(sessions, n, i + 1, map)
    ELSE PoolScan(sessions, n, i + 1, MapPut(map, DrillItemOf(sessions[n], i)))

\* line 307: the values of the Map with the drill subject and a screenshot
PoolFilter(map, subject) ==
    LET Shown(it) == it.subject = Str(subject) /\ Truthy(it.screenshot)
    IN  SelectSeq(map, Shown)

\* lines 282-307: the pool for the sessions loadStore returned
drillPoolOf(store, subject) ==
    PoolFilter(PoolScan(Get(store, "sessions").v, 1, 1, << >>), subject)

\* Weights are counted in units of 1 / WeightUnit, so that the four factors
\* are whole numbers: recencyBoost in thousandths, slowFactor in eightieths,
\* reviewFactor and outcomeFactor in tenths.
WeightUnit == 1000 * 80 * 10 * 10

\* Math.exp(-h / 48) in thousandths for h = d days, d = 0, 1, 2, ...
\* (e^(-d/2), rounded)
ExpByDay == <<1000, 607, 368, 223, 135, 82, 50, 30, 18, 11, 7, 4, 2, 2, 1, 1, 0>>

\* Math.exp(-(m / HourMin) / 48) in thousandths, interpolated between whole days
ExpMilli(m) ==
    LET d == m \div (24 * HourMin)
    IN  IF d + 2 > Len(ExpByDay) THEN 0
        ELSE ExpByDay[d + 1]
               - ((ExpByDay[d + 1] - ExpByDay[d + 2]) * (m % (24 * HourMin)))
                    \div (24 * HourMin)

Max(a, b) == IF a >= b THEN a ELSE b

Min(a, b) == IF a <= b THEN a ELSE b

\* line 321: 1 + 2 * exp(-sinceWrongH / 48), in thousandths
recencyBoost(it, nowTs) == 1000 + 2 * ExpMilli(Max(0, nowTs - it.lastWrongAt))

\* lines 322-323: 1 + 1.5 * min(1, baseTime / 120), in eightieths
slowFactor(it, rec) ==
    80 + Min(120, Coalesce(Get(rec, "lastTimeSec"), Num(it.historicSec)).v)

\* reviewFactor without the test of the time since the review
reviewFactorNone(rec, nowTs) == 10

\* lines 324-328, in tenths
reviewFactor(rec, nowTs) ==
    IF ~Truthy(Get(rec, "lastReviewedAt")) THEN 10
    ELSE IF nowTs - rec.v["lastReviewedAt"].v < 2 * HourMin THEN 2
    ELSE IF nowTs - rec.v["lastReviewedAt"].v < 8 * HourMin THEN 6
    ELSE IF nowTs - rec.v["lastReviewedAt"].v < 24 * HourMin THEN 8
    ELSE 10

\* line 329, in tenths
outcomeFactor(rec) == IF Get(rec, "lastOutcome") = Str("correct") THEN 7 ELSE 13

\* lines 319-330: the weight of item it under the drill state
Weight(it, state, nowTs) ==
    Max((5 * WeightUnit) \div 100,
        recencyBoost(it, nowTs) * slowFactor(it, Get(state, it.key))
          * reviewFactor(Get(state, it.key), nowTs) * outcomeFactor(Get(state, it.key)))

Weights(pool, state, nowTs) == [i \in 1..Len(pool) |-> Weight(pool[i], state, nowTs)]

RECURSIVE Sum(_, _)
Sum(w, n) == IF n = 0 THEN 0 ELSE w[n] + Sum(w, n - 1)

\* Math.random() is u / Grain for a draw u in 0 .. Grain - 1; the draw Grain
\* stands for a product Math.random() * total that floating-point rounding
\* leaves above the sum of the weights as the scan subtracts them
Draws == 0..Grain

\* the scan without line 338: nothing is returned when it is exhausted
ScanNoFallback(pool, w, u) ==
    IF u < Grain /\ \E i \in 1..Len(pool) : u * Sum(w, Len(w)) <= Grain * Sum(w, i)
    THEN pool[CHOOSE i \in 1..Len(pool) :
                 /\ u * Sum(w, Len(w)) <= Grain * Sum(w, i)
                 /\ \A j \in 1..(i - 1) : u * Sum(w, Len(w)) > Grain * Sum(w, j)]
    ELSE Null

\* lines 332-338: r = Math.random() * total; the first item at which r, less
\* the weights so far, is at most 0; the last item when there is none
Scan(pool, w, u) ==
    IF u < Grain /\ \E i \in 1..Len(pool) : u * Sum(w, Len(w)) <= Grain * Sum(w, i)
    THEN pool[CHOOSE i \in 1..Len(pool) :
                 /\ u * Sum(w, Len(w)) <= Grain * Sum(w, i)
                 /\ \A j \in 1..(i - 1) : u * Sum(w, Len(w)) > Grain * Sum(w, j)]
    ELSE pool[Len(pool)]

\* lines 315-339
pickNextDrillItem(pool, state, nowTs, u) ==
    IF Len(pool) = 0 THEN Null ELSE Scan(pool, Weights(pool, state, nowTs), u)

\* lines 189-195: one entry of the parsed drill state
DrillRecordOf(value) ==
    Obj([lastReviewedAt |-> IF Get(value, "lastReviewedAt").k = "num"
                            THEN Get(value, "lastReviewedAt") ELSE Num(0),
         lastOutcome |-> IF Get(value, "lastOutcome") = Str("correct")
                         THEN Str("correct") ELSE Str("wrong"),
         lastTimeSec |-> IF Get(value, "lastTimeSec").k = "num"
                         THEN Get(value, "lastTimeSec") ELSE Undef])

EmptyObject == Obj([f \in {} |-> Undef])

\* lines 183-202
loadDrillState(slot) ==
    IF Falsy(readRaw(slot, TRUE)) \/ ~Parses(readRaw(slot, TRUE)) THEN EmptyObject
    ELSE IF JsonParse(slot).k = "obj"
    THEN Obj([key \in DOMAIN JsonParse(slot).v |-> DrillRecordOf(JsonParse(slot).v[key])])
    \* Object.entries of a list: its indices, counted from 0, as keys
    ELSE IF JsonParse(slot).k = "arr"
    THEN Obj([key \in {ToString(i - 1) : i \in 1..Len(JsonParse(slot).v)} |->
                 DrillRecordOf(JsonParse(slot).v[
                     CHOOSE i \in 1..Len(JsonParse(slot).v) : ToString(i - 1) = key])])
    ELSE EmptyObject

\* writeDrillState with LS_KEY in place of LS_DRILL_STATE
writeDrillStateToKey(slots, state) ==
    [slots EXCEPT !.p = writeRaw(@, JsonStringify(state), TRUE)]

\* lines 204-206, on the three slots [p, b, d]
writeDrillState(slots, state) ==
    [slots EXCEPT !.d = writeRaw(@, JsonStringify(state), TRUE)]

\* line 367 without the spread: { [key]: rec }
OnlyRecord(state, key, rec) == Obj([f \in {key} |-> rec])

\* line 367: { ...drillState, [key]: rec }
WithRecord(state, key, rec) ==
    Obj([f \in DOMAIN state.v \cup {key} |-> IF f = key THEN rec ELSE state.v[f]])

\* The instants at which the drill's handlers run: Start, one minute later
\* and ten hours later
Start == 100000

Instants == {Start, Start + 1, Start + 10 * HourMin}

\* when the stored sessions ended: two days, two hours and half an hour
\* before Start
LongAgo == Start - 48 * HourMin

Earlier == Start - 2 * HourMin

Lately == Start - 30

\* drillSec when an outcome is committed: the seconds the interval of
\* startDrillRound counted
DrillSecs == {0, 500}

WithShot(text) ==
    Obj([choice |-> Str("A"), other |-> Str(""), correctChoice |-> Str("B"),
         explanation |-> Str(text), pinned |-> Bool(FALSE),
         screenshot |-> Str("data:image")])

NoShot ==
    Obj([choice |-> Str("A"), other |-> Str("note"), correctChoice |-> Null,
         explanation |-> Str(" why "), pinned |-> Bool(FALSE), screenshot |-> Null])

\* a marked session as doSubmit and "Save to history" store it
MarkedSession(id, subject, ended, answers, flags, secs) ==
    Obj([id |-> Str(id), name |-> Str("marked"), subject |-> Str(subject),
         version |-> Num(1), startNum |-> Num(5), startedAt |-> Num(ended - 20),
         endedAt |-> Num(ended), answers |-> Arr(answers),
         correctFlags |-> Arr(flags), perQuestionSec |-> Arr(secs)])

\* questions 5 and 6 wrong (5 with a screenshot, 6 without), 7 correct
FirstTry ==
    MarkedSession(IdNames[1], "math1", LongAgo,
                  <<WithShot("first"), NoShot, WithShot("")>>,
                  <<Bool(FALSE), Bool(FALSE), Bool(TRUE)>>,
                  <<Num(30), Num(30), Num(30)>>)

\* the same questions later: 5 and 6 wrong with screenshots, 7 not marked
SecondTry ==
    MarkedSession(IdNames[2], "math1", Earlier,
                  <<WithShot("second"), WithShot(" "), WithShot("")>>,
                  <<Bool(FALSE), Bool(FALSE), Null>>,
                  <<Num(200), Num(40), Num(10)>>)

\* the same questions again: 5 wrong, this time without a screenshot
ThirdTry ==
    MarkedSession(IdNames[3], "math1", Lately, <<NoShot>>, <<Bool(FALSE)>>,
                  <<Num(15)>>)

\* a session stored without the optional endedAt, in another subject:
\* questions 5 and 6 wrong with screenshots and the same time, 7 not marked
Unsubmitted ==
    Obj([id |-> Str(IdNames[4]), name |-> Str("open"), subject |-> Str("physics"),
         version |-> Num(1), startNum |-> Num(5), startedAt |-> Num(Earlier),
         answers |-> Arr(<<WithShot("x"), WithShot("y"), WithShot("z")>>),
         correctFlags |-> Arr(<<Bool(FALSE), Bool(FALSE), Null>>),
         perQuestionSec |-> Arr(<<Num(20), Num(20), Num(20)>>)])

DrillSessions == {FirstTry, SecondTry, ThirdTry, Unsubmitted}

\* the stores of at most MaxSessions different sessions
DrillLists ==
    {q \in UNION {[1..n -> DrillSessions] : n \in 0..MaxSessions} :
        \A i, j \in 1..Len(q) : i # j => q[i] # q[j]}

\* what the session slots may hold when the App is rendered
DrillPrimaries == {Absent, Garbage} \cup {Json(StoreOf(q)) : q \in DrillLists}

DrillBackups == {Absent, Json(StoreOf(<<FirstTry>>))}

\* what LS_DRILL_STATE may hold: nothing, or records of an earlier visit (one
\* of them without its fields)
DrillSlots ==
    {Absent,
     Json(Obj([k \in {"physics|5", "math1|9"} |->
                 IF k = "physics|5"
                 THEN Obj([lastReviewedAt |-> Num(LongAgo), lastOutcome |-> Str("wrong"),
                           lastTimeSec |-> Num(90)])
                 ELSE Obj([lastOutcome |-> Str("right")])]))}

\* the useState initial values of lines 214-239
NoQuiz ==
    [sessionName |-> Str(""), subject |-> Str("math1"), sessionNotes |-> Str(""),
     sessionId |-> "", startNum |-> 1, endNum |-> 20,
     currentIdx |-> 0, answers |-> << >>, perQSec |-> << >>,
     correctFlags |-> << >>, guessedFlags |-> << >>, mistakeTags |-> << >>,
     startedAt |-> Null, endedAt |-> Null, deadline |-> Null,
     confirmOpen |-> FALSE]

\* a browser context that is not inside mutateStore
Outside == [pc |-> "outside", s |-> Null, clean |-> Null, old |-> Absent]

\* no session started or opened, no interval running, and no second browser
\* context at work on the storage
QuizIdle == quiz = NoQuiz /\ timer = Null /\ contexts = [c \in {"A", "B"} |-> Outside]

\* the App component not rendered yet: no view; the useState initial values
\* of lines 264 and 266
DrillIdle ==
    /\ drillSlot = Absent
    /\ view = "none"
    /\ drillSubject = "math1"
    /\ drillState = EmptyObject
    /\ drillPool = << >>
    /\ currentDrill = Null
    /\ clock = 0
    /\ QuizIdle

(* --------------------------- history variables ------------------------ *)

\* `last` records the call that produced the current state: its name, its
\* transform, whether the storage threw, the slots before it, the value it
\* returned, for a mutation the Store loaded (cur), the primary slot as
\* loadStore left it (mid) and whether the transform's output was valid, and
\* whether the call repeats the call before it (again).
\* `created` lists, while the store has only seen well-formed upserts and
\* removals since it was empty, the ids in the order they were first upserted.

NoCall ==
    [op |-> "none", fn |-> NoFn, failed |-> FALSE, p0 |-> Absent, b0 |-> Absent,
     ret |-> Undef, cur |-> Null, mid |-> Absent, valid |-> FALSE,
     again |-> FALSE]

Untracked == [on |-> FALSE, ids |-> << >>]

Range(q) == {q[i] : i \in 1..Len(q)}

TrackUpsert(c, s, fails) ==
    IF ~c.on \/ fails # {} \/ s \notin WellFormedSessions THEN Untracked
    ELSE IF s.v.id.v \in Range(c.ids) THEN c
    ELSE [c EXCEPT !.ids = Append(@, s.v.id.v)]

TrackRemove(c, id, fails) ==
    IF ~c.on \/ fails # {} THEN Untracked
    ELSE LET Other(x) == x # id IN [c EXCEPT !.ids = SelectSeq(@, Other)]

TrackOther(c, fails) == IF fails # {} THEN Untracked ELSE c

(* ------------------------------- actions ------------------------------ *)

Init ==
    /\ primary \in SlotValues
    /\ backup \in SlotValues
    /\ last = NoCall
    /\ created = [on |-> primary = Absent /\ backup = Absent, ids |-> << >>]
    /\ DrillIdle

Loading(fails, r) ==
    /\ primary' = r.p
    /\ backup' = r.b
    /\ last' = [NoCall EXCEPT !.op = "loadStore", !.failed = (fails # {}),
                              !.p0 = primary, !.b0 = backup, !.ret = r.ret,
                              !.again = (last.op = "loadStore")]

LoadStoreOp(fails) ==
    /\ Loading(fails, loadStore(primary, backup, fails))
    /\ created' = TrackOther(created, fails)
    /\ UNCHANGED <<drillVars, quizVars, contexts>>

Record(op, fn, fails, returnsStore, r) ==
    /\ primary' = r.p
    /\ backup' = r.b
    /\ last' = [op |-> op, fn |-> fn, failed |-> (fails # {}), p0 |-> primary,
                b0 |-> backup, cur |-> r.cur, mid |-> r.mid, valid |-> r.valid,
                again |-> (last.op = op /\ last.fn = fn),
                ret |-> IF returnsStore \/ r.ret = Threw THEN r.ret ELSE Undef]

Mutation(op, fn, fails, returnsStore) ==
    Record(op, fn, fails, returnsStore, mutateStore(primary, backup, fn, fails))

MutateStoreOp(fn, fails) ==
    /\ Mutation("mutateStore", fn, fails, TRUE)
    /\ created' = TrackOther(created, fails)
    /\ UNCHANGED <<drillVars, quizVars, contexts>>

\* upsertSession and removeSession return nothing
UpsertSession(s, fails) ==
    /\ Mutation("upsertSession", [f |-> "upsert", s |-> s], fails, FALSE)
    /\ created' = TrackUpsert(created, s, fails)
    /\ UNCHANGED <<drillVars, quizVars, contexts>>

RemoveSession(id, fails) ==
    /\ Mutation("removeSession", [f |-> "remove", id |-> Str(id)], fails, FALSE)
    /\ created' = TrackRemove(created, id, fails)
    /\ UNCHANGED <<drillVars, quizVars, contexts>>

Next ==
    \/ LoadStoreOp({})
    \/ \E fn \in Transforms : MutateStoreOp(fn, {})
    \/ \E s \in UpsertArgs : UpsertSession(s, {})
    \/ \E id \in Ids : RemoveSession(id, {})

Spec == Init /\ [][Next]_vars

\* The same program on a storage whose accesses may throw, at most MaxFails
\* of them during one call; one session id is enough here, each slot starts
\* absent, empty, unparsable, parsable but no Store, or holding a Store
FailSets(points) == {S \in SUBSET points : Cardinality(S) <= MaxFails}

FaultySlots ==
    {Absent, EmptyText, Garbage, Json(Obj([sessions |-> Num(5)])),
     Json(StoreOf(<<FullSession(IdNames[1])>>))}

FaultyUpserts == {FullSession(IdNames[1]), BareSession(IdNames[1])}

FaultyTransforms == {[f |-> "identity"], [f |-> "sessionsNotList"]}

InitFaulty ==
    /\ primary \in FaultySlots
    /\ backup \in FaultySlots
    /\ last = NoCall
    /\ created = Untracked
    /\ DrillIdle

NextFaulty ==
    \/ \E fails \in FailSets(LoadPoints) : LoadStoreOp(fails)
    \/ \E fails \in FailSets(AccessPoints) :
          \/ \E fn \in FaultyTransforms : MutateStoreOp(fn, fails)
          \/ \E s \in FaultyUpserts : UpsertSession(s, fails)
          \/ RemoveSession(IdNames[1], fails)

SpecFaulty == InitFaulty /\ [][NextFaulty]_vars

\* loadStore and mutateStore on a primary slot that holds any raw value
InitRaw ==
    /\ primary \in {Json(v) : v \in RawStores}
    /\ backup \in {Absent, Json(StoreOf(<<FullSession(IdNames[2])>>))}
    /\ last = NoCall
    /\ created = Untracked
    /\ DrillIdle

NextRaw ==
    \/ LoadStoreOp({})
    \/ MutateStoreOp([f |-> "identity"], {})

SpecRaw == InitRaw /\ [][NextRaw]_vars

(* -------------------------------- drill ------------------------------- *)

\* In the drill, `last` records the handler that produced the current state:
\* its name, the weights its pickNextDrillItem computed (none when it picked
\* nothing) and the number of outcomes committed so far.
NoDrillCall == [op |-> "none", weights |-> << >>, answered |-> 0]

DrillCall(op, weights) == [op |-> op, weights |-> weights, answered |-> last.answered]

\* the drill on the stores of at most MaxSessions sessions
InitPool ==
    /\ primary \in DrillPrimaries
    /\ backup \in DrillBackups
    /\ drillSlot \in DrillSlots
    /\ view = "none"
    /\ drillSubject = "math1"
    /\ drillState = EmptyObject
    /\ drillPool = << >>
    /\ currentDrill = Null
    /\ clock = Start
    /\ last = NoDrillCall
    /\ created = Untracked
    /\ QuizIdle

\* the drill with its rounds, on a Store with one session or on session
\* slots that hold no Store, after an earlier visit
InitDrill ==
    /\ primary \in {Absent, Garbage, Json(StoreOf(<<Unsubmitted>>))}
    /\ backup \in DrillBackups
    /\ drillSlot \in DrillSlots \ {Absent}
    /\ view = "none"
    /\ drillSubject = "math1"
    /\ drillState = EmptyObject
    /\ drillPool = << >>
    /\ currentDrill = Null
    /\ clock = Start
    /\ last = NoDrillCall
    /\ created = Untracked
    /\ QuizIdle

\* lines 281-308, run when the component renders with a new view or a new
\* drill subject: ld is what loadStore returned and did to the slots
BuildPool(ld, subject) ==
    /\ primary' = ld.p
    /\ backup' = ld.b
    /\ drillPool' = drillPoolOf(ld.ret, subject)

\* lines 341-343: startDrillRound, with the pool and the drill state of the
\* render the caller belongs to
StartDrillRound(op, pool, u) ==
    /\ currentDrill' = pickNextDrillItem(pool, drillState, clock, u)
    /\ last' = DrillCall(op, Weights(pool, drillState, clock))

\* the first render of App: the useState initializer of line 265 and the
\* useMemo of line 281; the view is "plan"
Mount ==
    /\ view = "none"
    /\ view' = "plan"
    /\ drillState' = loadDrillState(drillSlot)
    /\ BuildPool(loadStore(primary, backup, {}), drillSubject)
    /\ last' = DrillCall("mount", << >>)
    /\ UNCHANGED <<drillSlot, drillSubject, currentDrill, clock, created, quizVars, contexts>>

\* setView("drill"): the pool is rebuilt, then the effect of lines 354-362
\* starts a round with the new pool
OpenDrill(u) ==
    /\ view = "plan"
    /\ view' = "drill"
    /\ BuildPool(loadStore(primary, backup, {}), drillSubject)
    /\ StartDrillRound("open", drillPoolOf(loadStore(primary, backup, {}).ret, drillSubject), u)
    /\ UNCHANGED <<drillSlot, drillSubject, drillState, clock, created, quizVars, contexts>>

\* setView to another view: the pool is rebuilt; the effect starts no round
LeaveDrill ==
    /\ view = "drill"
    /\ view' = "plan"
    /\ BuildPool(loadStore(primary, backup, {}), drillSubject)
    /\ last' = DrillCall("leave", << >>)
    /\ UNCHANGED <<drillSlot, drillSubject, drillState, currentDrill, clock, created, quizVars, contexts>>

\* line 1159: a subject button of the drill view
SetDrillSubject(s, u) ==
    /\ view = "drill"
    /\ s # drillSubject
    /\ drillSubject' = s
    /\ BuildPool(loadStore(primary, backup, {}), s)
    /\ StartDrillRound("subject", drillPoolOf(loadStore(primary, backup, {}).ret, s), u)
    /\ UNCHANGED <<drillSlot, view, drillState, clock, created, quizVars, contexts>>

\* the card with its buttons is shown (lines 1190-1196)
CardShown == view = "drill" /\ Len(drillPool) # 0 /\ currentDrill # Null

\* line 1231: Skip
Skip(u) ==
    /\ CardShown
    /\ StartDrillRound("skip", drillPool, u)
    /\ UNCHANGED <<primary, backup, drillSlot, view, drillSubject, drillState,
                   drillPool, created, quizVars, contexts>>
    /\ UNCHANGED clock

\* lines 364-369 after the test of currentDrill: the three slots and the drill
\* state after the commit of rec
Committed(slots, state) == [slots |-> writeDrillState(slots, state), state |-> state]

\* lines 364-370: the three slots and the drill state after
\* commitDrillOutcome(outcome) with current as currentDrill, sec as drillSec
\* and nowTs as now()
commitDrillOutcome(slots, state, current, outcome, sec, nowTs) ==
    IF current = Null THEN [slots |-> slots, state |-> state]
    ELSE Committed(slots, WithRecord(state, current.key,
                                     Obj([lastReviewedAt |-> Num(nowTs),
                                          lastOutcome |-> Str(outcome),
                                          lastTimeSec |-> Num(sec)])))

\* setDrillState and the slots as the commit c leaves them
Commits(c) ==
    /\ primary' = c.slots.p
    /\ backup' = c.slots.b
    /\ drillSlot' = c.slots.d
    /\ drillState' = c.state

\* commitDrillOutcome while no item is current: line 365 returns at once.
\* No button of the drill view is shown then; the call stands for a caller
\* of the function outside the card.
CommitNoCard(outcome) ==
    /\ view = "drill"
    /\ currentDrill = Null
    /\ Commits(commitDrillOutcome([p |-> primary, b |-> backup, d |-> drillSlot],
                                  drillState, currentDrill, outcome, 0, clock))
    /\ last' = DrillCall("commit", << >>)
    /\ UNCHANGED <<view, drillSubject, drillPool, currentDrill, clock, created, quizVars, contexts>>

\* lines 1260-1270: Wrong, Correct and Next: commitDrillOutcome, then
\* startDrillRound; both run in the closure of the render that showed the
\* card, so the round is picked with the drill state of that render
Answer(outcome, sec, u) ==
    /\ CardShown
    /\ last.answered < MaxAnswered
    /\ Commits(commitDrillOutcome([p |-> primary, b |-> backup, d |-> drillSlot],
                                  drillState, currentDrill, outcome, sec, clock))
    /\ currentDrill' = pickNextDrillItem(drillPool, drillState, clock, u)
    /\ last' = [DrillCall("answer", Weights(drillPool, drillState, clock))
                   EXCEPT !.answered = @ + 1]
    /\ UNCHANGED <<view, drillSubject, drillPool, clock, created, quizVars, contexts>>

\* lines 272-276: a storage event for one of the three keys
OnStorage ==
    /\ view # "none"
    /\ drillState' = loadDrillState(drillSlot)
    /\ last' = DrillCall("storage", << >>)
    /\ UNCHANGED <<primary, backup, drillSlot, view, drillSubject, drillPool,
                   currentDrill, clock, created, quizVars, contexts>>

\* time passes between two handlers
Tick ==
    /\ \E t \in Instants : t > clock /\ clock' = t
    /\ last' = DrillCall("tick", << >>)
    /\ UNCHANGED <<primary, backup, drillSlot, view, drillSubject, drillState,
                   drillPool, currentDrill, created, quizVars, contexts>>

NextPool ==
    \/ Mount
    \/ \E u \in Draws : OpenDrill(u)
    \/ LeaveDrill
    \/ \E s \in {"math1", "math2", "physics"}, u \in Draws : SetDrillSubject(s, u)

SpecPool == InitPool /\ [][NextPool]_vars

NextDrill ==
    \/ Mount
    \/ \E u \in Draws : OpenDrill(u)
    \/ \E s \in {"math1", "math2", "physics"}, u \in Draws : SetDrillSubject(s, u)
    \/ \E u \in Draws : Skip(u)
    \/ \E outcome \in {"correct", "wrong"}, sec \in DrillSecs, u \in Draws :
          Answer(outcome, sec, u)
    \/ \E outcome \in {"correct", "wrong"} : CommitNoCard(outcome)
    \/ OnStorage
    \/ Tick

SpecDrill == InitDrill /\ [][NextDrill]_vars

(* ------------------------------- claims ------------------------------ *)

\* what a loadStore() on working storage would return for slots p and b
Persisted(p, b) == loadStore(p, b, {}).ret

SessionsOf(store) == Get(store, "sessions").v

\* the sessions a loadStore() returned before, and returns after, the last call
Before == SessionsOf(Persisted(last.p0, last.b0))

After == SessionsOf(Persisted(primary, backup))

HoldsStore(slot) == Parses(slot) /\ sanitize(JsonParse(slot)) # Null

Mutating == last.op \in {"mutateStore", "upsertSession", "removeSession"}

AnswerFields == {"choice", "other", "correctChoice", "explanation", "pinned", "screenshot"}

AnswerDefault(g) ==
    CASE g \in {"other", "explanation"} -> Str("")
      [] g = "pinned" -> Bool(FALSE)
      [] OTHER -> Null

\* x is the answer a with its absent (or null) fields at their defaults
SameAnswer(a, x) ==
    /\ x.k = "obj"
    /\ DOMAIN x.v = AnswerFields
    /\ \A g \in AnswerFields :
          x.v[g] = IF g \in DOMAIN a.v /\ a.v[g].k \notin {"undef", "null"}
                   THEN a.v[g] ELSE AnswerDefault(g)

Defined(s) == {f \in DOMAIN s.v : s.v[f] # Undef}

\* x is the session s with its absent optional fields at their defaults
SameSession(s, x) ==
    /\ x.k = "obj"
    /\ \A f \in Defined(s) \ {"answers"} : f \in DOMAIN x.v /\ x.v[f] = s.v[f]
    /\ DOMAIN x.v \ Defined(s) \subseteq {"subject", "version"}
    /\ "subject" \notin Defined(s) => x.v["subject"] = Str("math1")
    /\ "version" \notin Defined(s) => x.v["version"] = Num(1)
    /\ Len(x.v["answers"].v) = Len(s.v["answers"].v)
    /\ \A i \in 1..Len(s.v["answers"].v) :
          SameAnswer(s.v["answers"].v[i], x.v["answers"].v[i])

WithId(q, s) == {i \in 1..Len(q) : Get(q[i], "id") = Get(s, "id")}

\* C1: a mutateStore whose transform returns no Store, on a primary slot that
\* holds a Store, writes nothing, returns the Store it loaded (whatever the
\* transform did to its argument), and a following loadStore returns that Store.
InvalidMutationWritesNothing ==
    (last.op = "mutateStore" /\ last.fn \in InvalidTransforms /\ HoldsStore(last.p0))
        => /\ primary = last.p0
           /\ backup = last.b0
           /\ last.ret = sanitize(JsonParse(last.p0))
           /\ Persisted(primary, backup) = sanitize(JsonParse(last.p0))

InvalidMutationSeen ==
    /\ last.op = "mutateStore"
    /\ last.fn = [f |-> "sessionsNotList"]
    /\ HoldsStore(last.p0)
    /\ SessionsOf(sanitize(JsonParse(last.p0))) # << >>

\* C2: whenever the primary slot holds a value that does not parse, or parses to
\* no Store, and the backup slot holds a Store, loadStore returns the backup's
\* sanitized Store and leaves it serialized in the primary slot.
BackupRecovery ==
    (last.op = "loadStore" /\ last.p0 # Absent /\ ~HoldsStore(last.p0)
       /\ HoldsStore(last.b0))
        => /\ last.ret = sanitize(JsonParse(last.b0))
           /\ primary = JsonStringify(sanitize(JsonParse(last.b0)))

\* C3: when neither slot holds a Store (unparsable or shape-invalid primary;
\* unparsable, shape-invalid or absent backup), loadStore returns the empty
\* Store and leaves both slots holding the serialized empty Store.
DoubleCorruptionResets ==
    (last.op = "loadStore" /\ last.p0 # Absent /\ ~HoldsStore(last.p0)
       /\ ~HoldsStore(last.b0))
        => /\ last.ret = EmptyStore
           /\ primary = Json(EmptyStore)
           /\ backup = Json(EmptyStore)

DoubleCorruptionSeen ==
    /\ last.op = "loadStore"
    /\ last.p0 = Garbage
    /\ last.b0 = Json(Obj([sessions |-> Num(5)]))

\* C4: after upsertSession(s) with a well-formed s, a loadStore returns a Store
\* with a session of id s.id whose fields are those of s, absent optional
\* fields (subject, version, Answer subfields) taking their defaults.
RoundTrip ==
    (last.op = "upsertSession" /\ last.fn.s \in WellFormedSessions)
        => \E i \in WithId(After, last.fn.s) : SameSession(last.fn.s, After[i])

RoundTripSeen ==
    /\ last.op = "upsertSession"
    /\ last.fn.s = BareSession(IdNames[1])
    /\ WithId(Before, last.fn.s) # {}
    /\ Before # After

\* C5: after upsertSession(s), for any s, either the persisted sessions are
\* exactly those persisted before, or s is stored (normalized) under s.id and
\* every session stored before under another id is still there.
NeverPartiallyWritten ==
    last.op = "upsertSession"
        => \/ After = Before
           \/ /\ isSession(last.fn.s)
              /\ \E i \in WithId(After, last.fn.s) : SameSession(last.fn.s, After[i])
              /\ \A j \in 1..Len(Before) :
                    j \notin WithId(Before, last.fn.s) => Before[j] \in Range(After)

\* C6: after a mutateStore that commits, the backup slot holds the value the
\* primary slot held just before the call wrote it; when the primary held a
\* Store at the call, that is the primary of one generation ago.
BackupOneGenerationBehind ==
    (Mutating /\ last.valid)
        => /\ backup = last.mid
           /\ HoldsStore(last.p0) => backup = last.p0

BackupGenerationSeen ==
    /\ last.op = "upsertSession"
    /\ last.valid
    /\ HoldsStore(last.p0)
    /\ SessionsOf(sanitize(JsonParse(last.p0))) # << >>
    /\ primary # backup

ShapeValid(x) ==
    /\ x.k = "obj"
    /\ IsArray(Get(x, "sessions"))
    /\ \A i \in 1..Len(Get(x, "sessions").v) : isSession(Get(x, "sessions").v[i])

\* C7: whatever the slots hold and whichever storage accesses throw, loadStore,
\* mutateStore, upsertSession and removeSession return without raising, and
\* the value loadStore and mutateStore return is a shape-valid Store.
NoThrowValidStore ==
    last.op # "none"
        => /\ last.ret # Threw
           /\ last.op \in {"loadStore", "mutateStore"} => ShapeValid(last.ret)

FaultyCallSeen ==
    /\ last.op = "mutateStore"
    /\ last.failed
    /\ last.p0 = Garbage
    /\ last.b0 = Json(Obj([sessions |-> Num(5)]))
    /\ primary = last.p0

\* C8: when a storage access throws during loadStore or mutateStore and the
\* primary slot held a Store with at least one session, the primary or the
\* backup slot still holds those sessions afterwards.
FailureKeepsSessions ==
    (last.op \in {"loadStore", "mutateStore"} /\ last.failed /\ HoldsStore(last.p0)
       /\ SessionsOf(sanitize(JsonParse(last.p0))) # << >>)
        => \E slot \in {primary, backup} :
              /\ HoldsStore(slot)
              /\ SessionsOf(sanitize(JsonParse(slot)))
                    = SessionsOf(sanitize(JsonParse(last.p0)))

IdsOf(q) == [i \in 1..Len(q) |-> q[i].v.id.v]

Reverse(q) == [i \in 1..Len(q) |-> q[Len(q) + 1 - i]]

\* C9: from an empty store, the sessions loadStore returns are in the reverse
\* of the order in which their ids were first upserted; upserting an id that
\* is present replaces that session where it is and changes nothing else.
InsertionOrder ==
    /\ created.on => IdsOf(After) = Reverse(created.ids)
    /\ (last.op = "upsertSession" /\ last.fn.s \in WellFormedSessions
          /\ WithId(Before, last.fn.s) # {})
        => /\ Len(After) = Len(Before)
           /\ \A j \in 1..Len(Before) :
                 IF j \in WithId(Before, last.fn.s)
                 THEN SameSession(last.fn.s, After[j])
                 ELSE After[j] = Before[j]

InsertionOrderSeen ==
    /\ created.on
    /\ Len(created.ids) >= 2
    /\ last.op = "upsertSession"
    /\ WithId(Before, last.fn.s) = {Len(Before)}
    /\ After # Before

\* C10: a second upsertSession(s) right after a first with the same well-formed
\* s leaves one session with id s.id and the sessions as the first call left
\* them.
UpsertIdempotent ==
    (last.op = "upsertSession" /\ last.again /\ last.fn.s \in WellFormedSessions)
        => /\ Cardinality(WithId(After, last.fn.s)) = 1
           /\ After = Before

UpsertTwiceSeen ==
    /\ last.op = "upsertSession"
    /\ last.again
    /\ last.fn.s \in WellFormedSessions
    /\ Len(After) >= 2

\* C11: after removeSession(id) on a primary slot that holds a Store, the
\* persisted sessions hold no session with that id and are the sessions
\* persisted before with another id, unchanged and in the same order; when the
\* id was not present the sessions are those persisted before.
RemoveDropsOnlyId ==
    (last.op = "removeSession" /\ HoldsStore(last.p0))
        => /\ \A i \in 1..Len(After) : Get(After[i], "id") # last.fn.id
           /\ LET Kept == {j \in 1..Len(Before) : Get(Before[j], "id") # last.fn.id}
                  Rank(j) == Cardinality({n \in Kept : n <= j})
              IN  /\ Len(After) = Cardinality(Kept)
                  /\ \A j \in Kept : After[Rank(j)] = Before[j]
           /\ (\A j \in 1..Len(Before) : Get(Before[j], "id") # last.fn.id)
                 => After = Before

RemoveSeen ==
    /\ last.op = "removeSession"
    /\ HoldsStore(last.p0)
    /\ Len(Before) >= 2
    /\ Len(After) = 1
    /\ Get(Before[1], "id") = last.fn.id

\* an element with a string id, a list answers and a list perQuestionSec
Qualifies(x) ==
    /\ x.k = "obj"
    /\ {"id", "answers", "perQuestionSec"} \subseteq DOMAIN x.v
    /\ x.v["id"].k = "str"
    /\ x.v["answers"].k = "arr"
    /\ x.v["perQuestionSec"].k = "arr"

IsRawStore(raw) ==
    /\ raw.k = "obj"
    /\ "sessions" \in DOMAIN raw.v
    /\ raw.v["sessions"].k = "arr"

\* S holds, in order, one session for each element of Q that qualifies, with
\* the element's own properties other than answers
SelectedFrom(Q, S) ==
    LET Kept == {j \in 1..Len(Q) : Qualifies(Q[j])}
        Rank(j) == Cardinality({n \in Kept : n <= j})
    IN  /\ Len(S) = Cardinality(Kept)
        /\ \A j \in Kept :
              \A f \in DOMAIN Q[j].v \ {"answers"} :
                 f \in DOMAIN S[Rank(j)].v /\ S[Rank(j)].v[f] = Q[j].v[f]

\* C12: sanitize returns null exactly for a value that is no object or whose
\* sessions is no list; for any other value it returns (and loadStore hands
\* on) a Store whose sessions are, in order, the elements with a string id, a
\* list answers and a list perQuestionSec, every other element being dropped.
SanitizeSelects ==
    (last.op = "loadStore" /\ Parses(last.p0))
        => /\ sanitize(JsonParse(last.p0)) = Null <=> ~IsRawStore(JsonParse(last.p0))
           /\ IsRawStore(JsonParse(last.p0))
                 => /\ last.ret = sanitize(JsonParse(last.p0))
                    /\ SelectedFrom(JsonParse(last.p0).v["sessions"].v,
                                    SessionsOf(last.ret))

SanitizeSelectsSeen ==
    /\ last.op = "loadStore"
    /\ Parses(last.p0)
    /\ IsRawStore(JsonParse(last.p0))
    /\ Len(JsonParse(last.p0).v["sessions"].v) = 2
    /\ ~Qualifies(JsonParse(last.p0).v["sessions"].v[1])
    /\ Get(JsonParse(last.p0).v["sessions"].v[1], "id") = Str(IdNames[1])
    /\ Len(SessionsOf(last.ret)) = 1
    /\ Get(SessionsOf(last.ret)[1], "name") = Str("nullSubject")

Subjects == {Str("math1"), Str("math2"), Str("physics")}

\* C13: every session of a Store returned by loadStore or mutateStore (the
\* output of sanitize) has a subject that is one of math1, math2, physics.
SubjectInEnumeration ==
    (last.op \in {"loadStore", "mutateStore"} /\ last.ret.k = "obj")
        => \A i \in 1..Len(SessionsOf(last.ret)) :
              Get(SessionsOf(last.ret)[i], "subject") \in Subjects

\* x has the six Answer fields, each with the value the raw element a holds
\* for it, or its default when a holds none (or null)
NormalizedFrom(a, x) ==
    /\ x.k = "obj"
    /\ AnswerFields \subseteq DOMAIN x.v
    /\ \A g \in AnswerFields :
          x.v[g] = IF Get(a, g).k \in {"undef", "null"} THEN AnswerDefault(g)
                   ELSE Get(a, g)

\* S holds, for each qualifying element of Q, a session with as many answers,
\* in the same order, each normalized from the raw answer at its index
AnswersNormalizedFrom(Q, S) ==
    LET Kept == {j \in 1..Len(Q) : Qualifies(Q[j])}
        Rank(j) == Cardinality({n \in Kept : n <= j})
    IN  \A j \in Kept :
           /\ Len(S[Rank(j)].v["answers"].v) = Len(Q[j].v["answers"].v)
           /\ \A n \in 1..Len(Q[j].v["answers"].v) :
                 NormalizedFrom(Q[j].v["answers"].v[n], S[Rank(j)].v["answers"].v[n])

\* C14: in the Store sanitize makes of a raw value, every session has as many
\* answers as its raw record, in the same order, and every answer has the six
\* Answer fields: the raw value of a field the raw answer holds, the default
\* (null, "", null, "", false, null) of a field it lacks or holds as null.
AnswersNormalized ==
    (last.op = "loadStore" /\ Parses(last.p0) /\ IsRawStore(JsonParse(last.p0)))
        => AnswersNormalizedFrom(JsonParse(last.p0).v["sessions"].v,
                                 SessionsOf(last.ret))

AnswersNormalizedSeen ==
    /\ last.op = "loadStore"
    /\ Parses(last.p0)
    /\ IsRawStore(JsonParse(last.p0))
    /\ Len(SessionsOf(last.ret)) = 2
    /\ Get(SessionsOf(last.ret)[1], "name") = Str("chemistry")
    /\ Get(JsonParse(last.p0).v["sessions"].v[2], "answers") = Arr(<<OddAnswer, PartialAnswer>>)
    /\ Get(SessionsOf(last.ret)[2], "answers").v[1].v["pinned"] = Str("yes")
    /\ Get(SessionsOf(last.ret)[2], "answers").v[2].v["pinned"] = Bool(FALSE)

\* C15: a loadStore that finds no item in the primary slot returns the empty
\* Store and leaves the serialized empty Store in the primary and in the
\* backup slot, whatever the backup slot held.
AbsentPrimaryInitializes ==
    (last.op = "loadStore" /\ last.p0 = Absent)
        => /\ last.ret = EmptyStore
           /\ primary = Json(EmptyStore)
           /\ backup = Json(EmptyStore)

AbsentPrimarySeen ==
    /\ last.op = "loadStore"
    /\ last.p0 = Absent
    /\ HoldsStore(last.b0)
    /\ SessionsOf(sanitize(JsonParse(last.b0))) # << >>
    /\ backup # last.b0

\* C16: no step of the drill (building the pool, picking, skipping, committing
\* an outcome) changes the primary or the backup session slot, whatever the
\* slots hold.
SchedulerNeverWritesSessions == [][primary' = primary /\ backup' = backup]_vars

\* C16, amended: a step of the drill that does not rebuild the pool (picking,
\* skipping, committing) never changes the session slots; a step that rebuilds
\* the pool leaves them as they are when the primary slot holds a Store
\* (otherwise its loadStore repairs or resets them); and only the commit of an
\* outcome writes the drill-state slot.
SchedulerKeepsValidStore ==
    [][/\ (HoldsStore(primary) \/ (view' = view /\ drillSubject' = drillSubject))
          => (primary' = primary /\ backup' = backup)
       /\ drillSlot' # drillSlot => last'.op = "answer"]_vars

SchedulerCommitSeen ==
    /\ last.op = "answer"
    /\ HoldsStore(primary)
    /\ SessionsOf(sanitize(JsonParse(primary))) # << >>
    /\ backup = Absent
    /\ currentDrill # Null
    /\ Parses(drillSlot)
    /\ "physics|6" \in DOMAIN JsonParse(drillSlot).v

\* answer i of the stored session s is marked wrong and has a screenshot
WrongWithShot(s, i) ==
    /\ At(Get(s, "correctFlags"), i) = Bool(FALSE)
    /\ Get(At(Get(s, "answers"), i), "screenshot") # Null

\* the key subject|q of the question answer i of session s belongs to
KeyOf(s, i) == Get(s, "subject").v \o "|" \o ToString(Get(s, "startNum").v + i - 1)

Answered(s) == 1..Len(Get(s, "answers").v)

\* C17: once the pool is built, it holds an item with key subject|q exactly
\* when a stored session of the drill subject has, at the index of question q,
\* correctFlags false and an answer with a screenshot; and every item of the
\* pool is of the drill subject.
PoolIsWrongWithShot ==
    view # "none"
        => /\ \A n \in 1..Len(drillPool) :
                 /\ drillPool[n].subject = Str(drillSubject)
                 /\ \E m \in 1..Len(After) : \E i \in Answered(After[m]) :
                       /\ Get(After[m], "subject") = Str(drillSubject)
                       /\ WrongWithShot(After[m], i)
                       /\ KeyOf(After[m], i) = drillPool[n].key
           /\ \A m \in 1..Len(After) : \A i \in Answered(After[m]) :
                 (Get(After[m], "subject") = Str(drillSubject) /\ WrongWithShot(After[m], i))
                    => \E n \in 1..Len(drillPool) : drillPool[n].key = KeyOf(After[m], i)

\* the wrong timestamp of a stored session: endedAt, or startedAt when endedAt
\* is missing
Stamp(s) == IF "endedAt" \in DOMAIN s.v THEN s.v["endedAt"].v ELSE s.v["startedAt"].v

\* the stored sessions of the drill subject that have question key marked
\* wrong with a screenshot, as pairs of session and answer index
CandidatesFor(key) ==
    {c \in (1..Len(After)) \X (1..3) :
        /\ c[2] \in Answered(After[c[1]])
        /\ Get(After[c[1]], "subject") = Str(drillSubject)
        /\ WrongWithShot(After[c[1]], c[2])
        /\ KeyOf(After[c[1]], c[2]) = key}

\* item it was made from answer c[2] of session c[1]
MadeFrom(it, c) ==
    /\ it.lastWrongAt = Stamp(After[c[1]])
    /\ it.screenshot = Get(At(Get(After[c[1]], "answers"), c[2]), "screenshot")
    /\ it.historicSec = At(Get(After[c[1]], "perQuestionSec"), c[2]).v

DrillKeys == {s \o "|" \o ToString(q) : s \in {"math1", "math2", "physics"}, q \in 5..7}

\* C18: once the pool is built, no two of its items have the same key, and
\* for a key for which several stored sessions have a candidate (the question
\* marked wrong, with a screenshot) the pool holds the item made from a
\* candidate with the greatest wrong timestamp.
PoolKeepsLatestCandidate ==
    view # "none"
        => /\ \A n, n2 \in 1..Len(drillPool) :
                 drillPool[n].key = drillPool[n2].key => n = n2
           /\ \A key \in DrillKeys :
                 Cardinality(CandidatesFor(key)) >= 2
                    => \E n \in 1..Len(drillPool) :
                          /\ drillPool[n].key = key
                          /\ \E c \in CandidatesFor(key) :
                                /\ MadeFrom(drillPool[n], c)
                                /\ \A c2 \in CandidatesFor(key) :
                                      Stamp(After[c2[1]]) <= Stamp(After[c[1]])

Picking == last.op \in {"open", "subject", "skip", "answer"}

\* C19: a handler that picks the next item picks none exactly when the pool
\* is empty; from a pool that is not empty it picks an item of the pool,
\* whatever the draw and the weights, also when the scan is exhausted; from a
\* pool of one item it picks that item.
PickReturnsPoolItem ==
    Picking
        => /\ currentDrill = Null <=> Len(drillPool) = 0
           /\ Len(drillPool) # 0 => \E n \in 1..Len(drillPool) : currentDrill = drillPool[n]
           /\ Len(drillPool) = 1 => currentDrill = drillPool[1]
           /\ Len(last.weights) = Len(drillPool)

PickSeen ==
    /\ last.op = "answer"
    /\ Len(drillPool) = 2
    /\ currentDrill = drillPool[1]
    /\ last.weights[1] < last.weights[2]

\* item x has a record reviewed one minute ago as correct, item y has no
\* record, and both were last wrong at the same time with the same time spent
FreshCorrectAgainstNew(x, y) ==
    /\ x.lastWrongAt = y.lastWrongAt
    /\ x.historicSec = y.historicSec
    /\ Get(drillState, x.key) # Undef
    /\ Get(Get(drillState, x.key), "lastReviewedAt") = Num(clock - 1)
    /\ Get(Get(drillState, x.key), "lastOutcome") = Str("correct")
    /\ Get(drillState, y.key) = Undef

\* C20: the item without a record weighs strictly more than the item reviewed
\* one minute ago as correct, whatever time the record holds; the weights a
\* skip computes for the two items are in that order.
NewOutweighsFreshCorrect ==
    \A i, j \in 1..Len(drillPool) :
        FreshCorrectAgainstNew(drillPool[i], drillPool[j])
            => /\ Weight(drillPool[j], drillState, clock)
                    > Weight(drillPool[i], drillState, clock)
               /\ last.op = "skip" => last.weights[j] > last.weights[i]

NewOutweighsSeen ==
    /\ last.op = "skip"
    /\ \E i, j \in 1..Len(drillPool) :
          /\ FreshCorrectAgainstNew(drillPool[i], drillPool[j])
          /\ Get(Get(drillState, drillPool[i].key), "lastTimeSec") = Num(500)

\* the keys of a drill state
DrillKeysOf(state) == DOMAIN state.v

\* the record commitDrillOutcome builds at line 366
CommittedRecord(outcome, sec, nowTs) ==
    Obj([lastReviewedAt |-> Num(nowTs), lastOutcome |-> Str(outcome),
         lastTimeSec |-> Num(sec)])

\* state2 is state with the record of key k replaced by rec and nothing else
\* changed
OnlyKeyReplaced(state, state2, k, rec) ==
    /\ DrillKeysOf(state2) = DrillKeysOf(state) \cup {k}
    /\ state2.v[k] = rec
    /\ \A j \in DrillKeysOf(state) \ {k} : state2.v[j] = state.v[j]

\* C21: a commit for the current item with key k replaces the record of k by
\* {lastReviewedAt: now, lastOutcome: outcome, lastTimeSec: seconds} and keeps
\* the record of every other key, in the drill state in memory and in the
\* drill state LS_DRILL_STATE holds (as loadDrillState reads it); no commit
\* and no skip removes a key of either; a commit without a current item
\* changes neither the memory nor a slot.
CommitReplacesOneRecord ==
    [][/\ \A outcome \in {"correct", "wrong"}, sec \in DrillSecs, u \in Draws :
            Answer(outcome, sec, u)
               => /\ OnlyKeyReplaced(drillState, drillState', currentDrill.key,
                                     CommittedRecord(outcome, sec, clock))
                  /\ OnlyKeyReplaced(loadDrillState(drillSlot), loadDrillState(drillSlot'),
                                     currentDrill.key,
                                     CommittedRecord(outcome, sec, clock))
       /\ last'.op \in {"skip", "answer", "commit"}
            => /\ DrillKeysOf(drillState) \subseteq DrillKeysOf(drillState')
               /\ DrillKeysOf(loadDrillState(drillSlot))
                     \subseteq DrillKeysOf(loadDrillState(drillSlot'))
       /\ last'.op \in {"skip", "commit"}
            => /\ drillState' = drillState
               /\ <<primary, backup, drillSlot>>' = <<primary, backup, drillSlot>>]_vars

\* a second commit, for another key than the first, with the record of the
\* first kept in memory and in the slot
CommitSeen ==
    /\ last.op = "answer"
    /\ last.answered = 2
    /\ {"physics|5", "physics|6", "math1|9"} \subseteq DrillKeysOf(drillState)
    /\ drillState.v["physics|5"].v["lastReviewedAt"] = Num(Start)
    /\ drillState.v["physics|6"].v["lastReviewedAt"] = Num(Start + 1)
    /\ loadDrillState(drillSlot) = drillState

(* -------------------------------- quiz -------------------------------- *)

\* Date.now() is counted in seconds here; minutes * 60 * 1000 ms (line 433)
\* are MinuteSec seconds for each minute
MinuteSec == 60

\* the setup field minutes keeps its initial value (line 218)
Minutes == 30

\* sessionName.trim() || `Session ${new Date(t).toLocaleString()}`
NameOf(sessionName, t) ==
    IF Trim(sessionName) = Str("") THEN Str("Session " \o ToText(t)) ELSE Trim(sessionName)

Repeat(n, x) == [i \in 1..n |-> x]

\* line 241
totalQuestions(q) == Max(0, q.endNum - q.startNum + 1)

\* line 242
correctCount(q) == Cardinality({i \in 1..Len(q.correctFlags) : q.correctFlags[i] = Bool(TRUE)})

\* the fields startQuiz, doSubmit and "Save to history" all write
SessionFields(q) ==
    [id |-> Str(q.sessionId), name |-> NameOf(q.sessionName, q.startedAt),
     subject |-> q.subject, startNum |-> Num(q.startNum), endNum |-> Num(q.endNum),
     startedAt |-> q.startedAt, minutes |-> Num(Minutes),
     perQuestionSec |-> Arr([i \in 1..Len(q.perQSec) |-> Num(q.perQSec[i])]),
     answers |-> Arr(q.answers), correctFlags |-> Arr(q.correctFlags),
     guessedFlags |-> Arr(q.guessedFlags), mistakeTags |-> Arr(q.mistakeTags),
     notes |-> q.sessionNotes, version |-> Num(1)]

\* lines 436-451: the session startQuiz upserts
StartedSession(q) == Obj(SessionFields(q))

\* the session with startedAt: t1 in place of the startedAt state
EndedSessionRestarted(q, t1) ==
    Obj([f \in DOMAIN SessionFields(q) |->
            IF f = "startedAt" THEN t1 ELSE SessionFields(q)[f]]
          @@ [endedAt |-> t1,
              score |-> Obj([correct |-> Num(correctCount(q)),
                             total |-> Num(totalQuestions(q))])])

\* lines 458-475 and 1105-1121: the session doSubmit and "Save to history"
\* upsert, ended at t1
EndedSession(q, t1) ==
    Obj(SessionFields(q)
          @@ [endedAt |-> t1,
              score |-> Obj([correct |-> Num(correctCount(q)),
                             total |-> Num(totalQuestions(q))])])

\* lines 414-433: the state startQuiz sets for the new id at time t0
Started(q, id, t0) ==
    [q EXCEPT !.sessionNotes = Str(""),
              !.sessionId = id,
              !.answers = Repeat(q.endNum - q.startNum + 1, normalizeAnswer(Undef)),
              !.perQSec = Repeat(q.endNum - q.startNum + 1, 0),
              !.correctFlags = Repeat(q.endNum - q.startNum + 1, Null),
              !.guessedFlags = Repeat(q.endNum - q.startNum + 1, Bool(FALSE)),
              !.mistakeTags = Repeat(q.endNum - q.startNum + 1, Str("None")),
              !.currentIdx = 0,
              !.startedAt = Num(t0),
              !.endedAt = Null,
              !.deadline = Num(t0 + Minutes * MinuteSec)]

\* lines 477-479: the state doSubmit sets at time t1
Submitted(q, t1) ==
    [q EXCEPT !.endedAt = Num(t1), !.deadline = Null, !.confirmOpen = FALSE]

\* lines 486-501: the state openForMarking(s) sets
Opened(q, s) ==
    [q EXCEPT !.sessionId = Get(s, "id").v,
              !.sessionName = Get(s, "name"),
              !.subject = Coalesce(Get(s, "subject"), Str("math1")),
              !.sessionNotes = Coalesce(Get(s, "notes"), Str("")),
              !.startNum = Get(s, "startNum").v,
              !.endNum = Get(s, "endNum").v,
              !.answers = [i \in 1..Len(Get(s, "answers").v) |->
                              normalizeAnswer(Get(s, "answers").v[i])],
              !.perQSec = [i \in 1..Len(Get(s, "perQuestionSec").v) |->
                              Get(s, "perQuestionSec").v[i].v],
              !.correctFlags = Coalesce(Get(s, "correctFlags"),
                                        Arr(Repeat(Len(Get(s, "answers").v), Null))).v,
              !.guessedFlags = Coalesce(Get(s, "guessedFlags"),
                                        Arr(Repeat(Len(Get(s, "answers").v), Bool(FALSE)))).v,
              !.mistakeTags = Coalesce(Get(s, "mistakeTags"),
                                       Arr(Repeat(Len(Get(s, "answers").v), Str("None")))).v,
              !.startedAt = Get(s, "startedAt"),
              !.endedAt = Coalesce(Get(s, "endedAt"), Null),
              !.deadline = Null,
              !.currentIdx = 0]

\* { ...a, f: value }
WithField(a, f, value) ==
    Obj([g \in DOMAIN a.v \cup {f} |-> IF g = f THEN value ELSE a.v[g]])

\* text.trim() is empty
Blank(text) == Trim(text) = Str("")

\* line 507: setChoice(idx, letter), idx counted from 1
setChoice(answers, idx, letter) ==
    [answers EXCEPT ![idx] = WithField(@, "choice", Str(letter))]

\* setExplanation without the test of line 531
setExplanationKeepsPin(answers, idx, text) ==
    [answers EXCEPT ![idx] = WithField(@, "explanation", text)]

\* lines 526-535
setExplanation(answers, idx, text) ==
    [answers EXCEPT ![idx] =
        WithField(WithField(@, "explanation", text), "pinned",
                  IF Blank(text) /\ ~Truthy(@.v["screenshot"])
                  THEN Bool(FALSE) ELSE @.v["pinned"])]

\* lines 536-548
setScreenshot(answers, idx, dataUrl) ==
    [answers EXCEPT ![idx] =
        IF Blank(@.v["explanation"]) /\ ~Truthy(dataUrl)
        THEN WithField(WithField(@, "screenshot", dataUrl), "pinned", Bool(FALSE))
        ELSE WithField(@, "screenshot", dataUrl)]

\* line 554
hasContent(a) == ~Blank(a.v["explanation"]) \/ Truthy(a.v["screenshot"])

\* lines 549-559
togglePinnedInsight(answers, idx) ==
    IF ~hasContent(answers[idx]) /\ ~Truthy(answers[idx].v["pinned"]) THEN answers
    ELSE [answers EXCEPT ![idx] =
            WithField(@, "pinned",
                      IF hasContent(@) THEN Bool(~Truthy(@.v["pinned"])) ELSE Bool(FALSE))]

\* lines 898-904: the answer after "Mark correct"
markedCorrect(answers, idx) ==
    [answers EXCEPT ![idx] =
        WithField(WithField(WithField(@, "correctChoice", Null),
                            "explanation", Str("")), "pinned", Bool(FALSE))]

\* In the quiz, `created` lists the ids crypto.randomUUID() has returned;
\* `last` is not used.

\* when the App was rendered
QuizStart == 1000

\* the App rendered for the first time in a browser that holds no item: the
\* loadStore of line 282 has written the empty Store to both slots
InitQuiz ==
    /\ primary = JsonStringify(EmptyStore)
    /\ backup = JsonStringify(EmptyStore)
    /\ drillSlot = Absent
    /\ view = "plan"
    /\ drillSubject = "math1"
    /\ drillState = EmptyObject
    /\ drillPool = << >>
    /\ currentDrill = Null
    /\ clock = QuizStart
    /\ last = NoCall
    /\ created = [on |-> TRUE, ids |-> << >>]
    /\ QuizIdle

\* lines 388-405: the effect runs again when view, deadline or currentIdx
\* changed; the interval it sets up calls the doSubmit of the render it
\* belongs to, whose state is q2
EffectTimer(v2, q2) ==
    IF v2 = view /\ q2.deadline = quiz.deadline /\ q2.currentIdx = quiz.currentIdx
    THEN timer
    ELSE IF v2 = "solve" /\ q2.deadline # Null THEN q2 ELSE Null

\* the render after a handler that left the session slots as p and b, the
\* view as v2 and the state as q2: the useMemo of line 281 calls loadStore
\* when the view changed
Rendered(p, b, v2, q2) ==
    /\ view' = v2
    /\ quiz' = q2
    /\ timer' = EffectTimer(v2, q2)
    /\ primary' = IF v2 = view THEN p ELSE loadStore(p, b, {}).p
    /\ backup' = IF v2 = view THEN b ELSE loadStore(p, b, {}).b
    /\ drillPool' = IF v2 = view THEN drillPool
                    ELSE drillPoolOf(loadStore(p, b, {}).ret, drillSubject)
    /\ UNCHANGED <<drillSlot, drillSubject, drillState, currentDrill, last, contexts>>

\* a handler that calls upsertSession(s), then sets the view and the state
Upserting(s, v2, q2) ==
    Rendered(mutateStore(primary, backup, [f |-> "upsert", s |-> s], {}).p,
             mutateStore(primary, backup, [f |-> "upsert", s |-> s], {}).b, v2, q2)

\* a handler that writes nothing
Local(v2, q2) == Rendered(primary, backup, v2, q2)

\* the numbers typed into the two range fields
SetupNums == 1..MaxQuestions

\* lines 662-663
SetStartNum(n) ==
    /\ view = "plan"
    /\ n # quiz.startNum
    /\ Local(view, [quiz EXCEPT !.startNum = n])
    /\ UNCHANGED <<clock, created>>

SetEndNum(n) ==
    /\ view = "plan"
    /\ n # quiz.endNum
    /\ Local(view, [quiz EXCEPT !.endNum = n])
    /\ UNCHANGED <<clock, created>>

\* lines 410-452: Start, refused by line 412 when the range is empty
StartQuiz ==
    /\ view = "plan"
    /\ Len(created.ids) < MaxStarts
    /\ quiz.endNum - quiz.startNum + 1 <= MaxQuestions
    /\ IF quiz.startNum > quiz.endNum
       THEN /\ Local(view, [quiz EXCEPT !.sessionNotes = Str("")])
            /\ UNCHANGED created
       ELSE /\ Upserting(StartedSession(Started(quiz, IdNames[Len(created.ids) + 1], clock)),
                         "solve", Started(quiz, IdNames[Len(created.ids) + 1], clock))
            /\ created' = [created EXCEPT !.ids = Append(@, IdNames[Len(created.ids) + 1])]
    /\ UNCHANGED clock

\* lines 1327-1346: a button of the top bar; in the view solve the others are
\* disabled.  The drill view is left to its own specification.
Navigate(to) ==
    /\ view \in {"plan", "mark", "archive"}
    /\ to # view
    /\ Local(to, quiz)
    /\ UNCHANGED <<clock, created>>

\* a letter of the current question is chosen (setChoice, line 506)
SetChoice ==
    /\ view = "solve"
    /\ quiz.currentIdx + 1 \in 1..Len(quiz.answers)
    /\ quiz.answers[quiz.currentIdx + 1].v["choice"] = Null
    /\ Local(view,
             [quiz EXCEPT !.answers = setChoice(@, quiz.currentIdx + 1, "A")])
    /\ UNCHANGED <<clock, created>>

\* line 581: jumpTo(i), for a question of the session
JumpTo(i) ==
    /\ view = "solve"
    /\ i # quiz.currentIdx
    /\ i + 1 \in 1..Len(quiz.answers)
    /\ Local(view, [quiz EXCEPT !.currentIdx = i])
    /\ UNCHANGED <<clock, created>>

\* line 482: Submit in the top bar opens the dialog; line 1295: Cancel
SetConfirmOpen(open) ==
    /\ view = "solve"
    /\ quiz.confirmOpen # open
    /\ Local(view, [quiz EXCEPT !.confirmOpen = open])
    /\ UNCHANGED <<clock, created>>

\* lines 455-481: doSubmit at time t1, called from a render whose state was q
DoSubmit(q, t1) ==
    IF q.sessionId = "" \/ q.startedAt = Null THEN Local(view, quiz)
    ELSE Upserting(EndedSession(q, Num(t1)), "mark", Submitted(quiz, t1))

\* line 1296: Submit in the dialog
ConfirmSubmit ==
    /\ quiz.confirmOpen
    /\ DoSubmit(quiz, clock)
    /\ UNCHANGED <<clock, created>>

\* lines 390-402: the interval fires, one second after the tick before it or
\* (late) not before the deadline
TimerFires(late) ==
    /\ timer # Null
    /\ late \/ quiz.perQSec[timer.currentIdx + 1] < MaxSec
    /\ clock' = IF late THEN Max(clock + 1, timer.deadline.v) ELSE clock + 1
    /\ IF Max(0, timer.deadline.v - clock') <= 0
       THEN DoSubmit(timer, clock')
       ELSE Local(view,
                  [quiz EXCEPT !.perQSec[timer.currentIdx + 1] = @ + 1])
    /\ UNCHANGED created

\* time passes while no interval runs
Wait ==
    /\ timer = Null
    /\ clock < QuizStart + MaxWait
    /\ clock' = clock + 1
    /\ Local(view, quiz)
    /\ UNCHANGED created

\* lines 1103-1124: Save to history
SaveToHistory ==
    /\ view = "mark"
    /\ IF quiz.sessionId = "" \/ quiz.startedAt = Null THEN Local(view, quiz)
       ELSE Upserting(EndedSession(quiz, Coalesce(quiz.endedAt, Num(clock))),
                      "archive", quiz)
    /\ UNCHANGED <<clock, created>>

\* the sessions HistoryView lists (lines 1792-1803)
Listed == Get(loadStore(primary, backup, {}).ret, "sessions").v

\* line 1138: a session of the list is opened
OpenForMarking(i) ==
    /\ view = "archive"
    /\ i \in 1..Len(Listed)
    /\ Local("mark", Opened(quiz, Listed[i]))
    /\ UNCHANGED <<clock, created>>

\* lines 1812-1829 and 1885-1887: commitRename, saveNotes and the subject
\* menu upsert { ...s, f: value }
EditListed(i, f, value) ==
    /\ view = "archive"
    /\ i \in 1..Len(Listed)
    /\ Get(Listed[i], f) # value
    /\ Upserting(WithField(Listed[i], f, value), view, quiz)
    /\ UNCHANGED <<clock, created>>

\* lines 1139-1142: a session of the list is deleted
DeleteListed(i) ==
    /\ view = "archive"
    /\ i \in 1..Len(Listed)
    /\ Rendered(mutateStore(primary, backup, [f |-> "remove", id |-> Get(Listed[i], "id")], {}).p,
                mutateStore(primary, backup, [f |-> "remove", id |-> Get(Listed[i], "id")], {}).b,
                view, quiz)
    /\ UNCHANGED <<clock, created>>

\* a session from the setup to its submission and back to the setup
NextQuiz ==
    \/ \E n \in SetupNums : SetStartNum(n) \/ SetEndNum(n)
    \/ StartQuiz
    \/ \E to \in {"plan", "solve", "mark", "archive"} : Navigate(to)
    \/ SetConfirmOpen(TRUE)
    \/ ConfirmSubmit
    \/ TimerFires(TRUE)
    \/ Wait
    \/ SaveToHistory

SpecQuiz == InitQuiz /\ [][NextQuiz]_vars

\* a session from its start to the archive, and what the archive does with it
NextArchive ==
    \/ \E n \in SetupNums : SetEndNum(n)
    \/ StartQuiz
    \/ \E to \in {"plan", "solve", "mark", "archive"} : Navigate(to)
    \/ SetConfirmOpen(TRUE)
    \/ ConfirmSubmit
    \/ Wait
    \/ SaveToHistory
    \/ \E i \in 1..MaxStarts :
          \/ OpenForMarking(i)
          \/ EditListed(i, "name", Str("renamed"))
          \/ EditListed(i, "notes", Str("redo"))
          \/ EditListed(i, "subject", Str("physics"))
          \/ DeleteListed(i)

SpecArchive == InitQuiz /\ [][NextArchive]_vars


\* the texts typed as an explanation and the images pasted as a screenshot
\* (line 1006 removes the screenshot)
ExplanationTexts == {Str(""), Str(" "), Str("why")}

ScreenshotUrls == {Null, Str("data:image")}

\* line 977: the explanation of answer i is edited
SetExplanation(i, text) ==
    /\ view = "mark"
    /\ i \in 1..Len(quiz.answers)
    /\ Local(view, [quiz EXCEPT !.answers = setExplanation(@, i, text)])
    /\ UNCHANGED <<clock, created>>

\* lines 566 and 1006: a screenshot is pasted or removed
SetScreenshot(i, dataUrl) ==
    /\ view = "mark"
    /\ i \in 1..Len(quiz.answers)
    /\ Local(view, [quiz EXCEPT !.answers = setScreenshot(@, i, dataUrl)])
    /\ UNCHANGED <<clock, created>>

\* line 961: the pin button
TogglePinnedInsight(i) ==
    /\ view = "mark"
    /\ i \in 1..Len(quiz.answers)
    /\ Local(view, [quiz EXCEPT !.answers = togglePinnedInsight(@, i)])
    /\ UNCHANGED <<clock, created>>

\* lines 896-905: Mark correct
MarkCorrect(i) ==
    /\ view = "mark"
    /\ i \in 1..Len(quiz.answers)
    /\ Local(view, [quiz EXCEPT !.correctFlags[i] = Bool(TRUE),
                               !.answers = markedCorrect(@, i)])
    /\ UNCHANGED <<clock, created>>

\* a session is started, submitted and marked
NextMark ==
    \/ \E n \in SetupNums : SetEndNum(n)
    \/ StartQuiz
    \/ SetConfirmOpen(TRUE)
    \/ ConfirmSubmit
    \/ \E i \in 1..MaxQuestions :
          \/ \E text \in ExplanationTexts : SetExplanation(i, text)
          \/ \E dataUrl \in ScreenshotUrls : SetScreenshot(i, dataUrl)
          \/ TogglePinnedInsight(i)
          \/ MarkCorrect(i)

SpecMark == InitQuiz /\ [][NextMark]_vars

Pinned(a) == a.v["pinned"] = Bool(TRUE)

\* C22: in a session started in this run, after every step every pinned
\* answer has an explanation that is not blank or a screenshot that is not
\* null; a blank explanation set on an answer without a screenshot leaves it
\* unpinned; an answer goes from unpinned to pinned only in a step of
\* togglePinnedInsight on it.
PinnedHasContent ==
    [][/\ \A i \in 1..Len(quiz'.answers) :
             Pinned(quiz'.answers[i])
                => \/ ~Blank(quiz'.answers[i].v["explanation"])
                   \/ quiz'.answers[i].v["screenshot"] # Null
       /\ \A i \in 1..Len(quiz.answers), text \in ExplanationTexts :
             (SetExplanation(i, text) /\ Blank(text)
                /\ quiz.answers[i].v["screenshot"] = Null)
                => ~Pinned(quiz'.answers[i])
       /\ \A i \in 1..Len(quiz.answers) :
             (i <= Len(quiz'.answers) /\ ~Pinned(quiz.answers[i])
                /\ Pinned(quiz'.answers[i]))
                => TogglePinnedInsight(i)]_vars

\* a pinned answer whose explanation was then blanked: it is unpinned, next
\* to an answer that is still pinned through its screenshot alone
PinnedSeen ==
    /\ view = "mark"
    /\ Len(quiz.answers) = 2
    /\ quiz.answers[1].v["explanation"] = Str(" ")
    /\ quiz.answers[1].v["screenshot"] = Null
    /\ ~Pinned(quiz.answers[1])
    /\ quiz.answers[2].v["explanation"] = Str("")
    /\ quiz.answers[2].v["screenshot"] # Null
    /\ Pinned(quiz.answers[2])

\* the sessions a loadStore() returns in the current state
Stored == SessionsOf(Persisted(primary, backup))

\* the five index-aligned lists of session s have n elements each
Aligned(s, n) ==
    \A f \in {"answers", "perQuestionSec", "correctFlags", "guessedFlags", "mistakeTags"} :
        IsArray(Get(s, f)) /\ Len(Get(s, f).v) = n

\* C23: every session in the store, all of them written by the handlers of
\* the UI, has its five lists of the same length, endNum - startNum + 1.
WrittenListsAligned ==
    \A i \in 1..Len(Stored) :
        Aligned(Stored[i], Get(Stored[i], "endNum").v - Get(Stored[i], "startNum").v + 1)

\* the ids of the sessions in the list q
IdsIn(q) == {Get(q[i], "id") : i \in 1..Len(q)}

\* the first session of the list q with the id
WithIdIn(q, id) == q[FindIndex(q, id)]

\* the sessions a loadStore() returns after the step
StoredNext == SessionsOf(Persisted(primary', backup'))

\* C24: a stored session that has an endedAt keeps that value in every step
\* that keeps the session.
EndedAtSetOnce ==
    [][\A id \in IdsIn(Stored) \cap IdsIn(StoredNext) :
          Get(WithIdIn(Stored, id), "endedAt") # Undef
             => Get(WithIdIn(StoredNext, id), "endedAt")
                   = Get(WithIdIn(Stored, id), "endedAt")]_vars

\* C25: in every step, each session that stays in the store keeps its
\* startedAt, and the session of the store that has the id of the session in
\* memory has the startedAt held in memory (so a session written again after
\* it was deleted gets the startedAt it had).
StartedAtKept ==
    [][/\ \A id \in IdsIn(Stored) \cap IdsIn(StoredNext) :
             Get(WithIdIn(StoredNext, id), "startedAt")
                = Get(WithIdIn(Stored, id), "startedAt")
       /\ Str(quiz'.sessionId) \in IdsIn(StoredNext)
             => Get(WithIdIn(StoredNext, Str(quiz'.sessionId)), "startedAt")
                   = quiz'.startedAt]_vars

\* a session renamed and moved to another subject in the archive, opened from
\* there and saved again one second after it was started and submitted
StartedAtSeen ==
    /\ view = "archive"
    /\ clock = QuizStart + 1
    /\ Len(Stored) = 1
    /\ Get(Stored[1], "name") = Str("renamed")
    /\ Get(Stored[1], "subject") = Str("physics")
    /\ Get(Stored[1], "startedAt") = Num(QuizStart)
    /\ Get(Stored[1], "endedAt") = Num(QuizStart)
    /\ quiz.sessionName = Str("renamed")

(* ------------------------- two browser contexts ----------------------- *)

\* Two contexts of the same origin (tabs A and B) share localStorage.  Each
\* calls upsertSession once; between two accesses of one context to the
\* storage the other context may run.  contexts[c] is the position of c in
\* mutateStore: outside, after loadStore and sanitize (line 160), after the
\* read of line 161, after the backup write of line 162, and done; with the
\* session s it upserts, the Store clean it is about to write and the item
\* old it read.  `last` lists the steps taken, in order.
SharedStores ==
    {Absent, JsonStringify(EmptyStore), JsonStringify(StoreOf(<<FullSession(IdNames[3])>>))}

InitShared ==
    /\ primary \in SharedStores
    /\ backup \in {Absent, primary}
    /\ last = << >>
    /\ created = Untracked
    /\ drillSlot = Absent
    /\ view = "none"
    /\ drillSubject = "math1"
    /\ drillState = EmptyObject
    /\ drillPool = << >>
    /\ currentDrill = Null
    /\ clock = 0
    /\ QuizIdle

\* the step of context c that leaves it as rec and the slots as p and b
Stepped(c, step, rec, p, b) ==
    /\ contexts' = [contexts EXCEPT ![c] = rec]
    /\ primary' = p
    /\ backup' = b
    /\ last' = Append(last, <<c, step>>)
    /\ UNCHANGED <<created, drillVars, quizVars>>

\* where mutateStore stands after lines 157-160, with ld the result of
\* loadStore and clean the result of sanitize on the transform's output
AfterSanitize(s, clean) ==
    [pc |-> IF clean = Null THEN "done" ELSE "sanitized", s |-> s,
     clean |-> clean, old |-> Absent]

\* lines 157-160 of upsertSession(s) in context c
LoadStep(c, s) ==
    /\ contexts[c].pc = "outside"
    /\ Stepped(c, "load",
               AfterSanitize(s, sanitize(Apply([f |-> "upsert", s |-> s],
                                               loadStore(primary, backup, {}).ret).out)),
               loadStore(primary, backup, {}).p, loadStore(primary, backup, {}).b)

\* line 161
ReadOldStep(c) ==
    /\ contexts[c].pc = "sanitized"
    /\ Stepped(c, "read", [contexts[c] EXCEPT !.pc = "read", !.old = readRaw(primary, TRUE)],
               primary, backup)

\* line 162
BackupStep(c) ==
    /\ contexts[c].pc = "read"
    /\ Stepped(c, "backup", [contexts[c] EXCEPT !.pc = "backed"], primary,
               IF Falsy(contexts[c].old) THEN backup
               ELSE writeRaw(backup, contexts[c].old, TRUE))

\* the write of line 163 left out
primaryKept(p, clean) == p

\* line 163: the primary slot after the write
primaryWritten(p, clean) == writeRaw(p, JsonStringify(clean), TRUE)

PrimaryStep(c) ==
    /\ contexts[c].pc = "backed"
    /\ Stepped(c, "primary", [contexts[c] EXCEPT !.pc = "done"],
               primaryWritten(primary, contexts[c].clean), backup)

NextShared ==
    \E c \in {"A", "B"} :
        \/ \E s \in WellFormedSessions : LoadStep(c, s)
        \/ ReadOldStep(c)
        \/ BackupStep(c)
        \/ PrimaryStep(c)

SpecShared == InitShared /\ [][NextShared]_vars

\* the place of the step in the list of the steps taken, 0 when it was not
PlaceOf(c, step) ==
    IF \E n \in 1..Len(last) : last[n] = <<c, step>>
    THEN CHOOSE n \in 1..Len(last) : last[n] = <<c, step>>
    ELSE 0

\* both contexts have upserted, A a session whose id is neither the id of B's
\* session nor in the Store B loaded, and B loaded before A wrote the primary
\* slot and wrote it after A
Overtaken ==
    /\ contexts["A"].pc = "done"
    /\ contexts["B"].pc = "done"
    /\ contexts["A"].s.v["id"] \notin IdsIn(SessionsOf(contexts["B"].clean))
    /\ PlaceOf("B", "load") < PlaceOf("A", "primary")
    /\ PlaceOf("A", "primary") < PlaceOf("B", "primary")

\* C26: when context B loaded before context A wrote the primary slot and B
\* wrote it after A, the primary slot holds the Store B computed from what it
\* loaded, without the session A upserted: nothing merges the two writes and
\* nothing detects the conflict.
LastWriteWins ==
    Overtaken
        => /\ primary = JsonStringify(contexts["B"].clean)
           /\ contexts["A"].s.v["id"] \notin IdsIn(Stored)
           /\ contexts["B"].s.v["id"] \in IdsIn(Stored)

\* two upserts of new sessions, A's lost, on a store that held a session
LostUpdateSeen ==
    /\ Overtaken
    /\ Len(Stored) = 2
    /\ Get(Stored[2], "id") = Str(IdNames[3])

\* C27: the weights computed by the pick of an Answer step (Wrong, Correct or
\* Next) are the weights under the drill state that holds the record the
\* step committed.
PickUsesCommittedRecord ==
    last.op = "answer" => last.weights = Weights(drillPool, drillState, clock)

\* a session while it is solved, up to its submission
NextSolve ==
    \/ \E n \in SetupNums : SetEndNum(n)
    \/ StartQuiz
    \/ SetChoice
    \/ \E i \in 0..(MaxQuestions - 1) : JumpTo(i)
    \/ \E open \in BOOLEAN : SetConfirmOpen(open)
    \/ ConfirmSubmit
    \/ \E late \in BOOLEAN : TimerFires(late)

SpecSolve == InitQuiz /\ [][NextSolve]_vars

\* the stored session of the running quiz holds the answers and the seconds
\* of the state q
WrittenFrom(q, sessions) ==
    /\ q.sessionId \in {Get(sessions[i], "id").v : i \in 1..Len(sessions)}
    /\ \A i \in 1..Len(sessions) :
          Get(sessions[i], "id") = Str(q.sessionId)
             => /\ Get(sessions[i], "answers") = Arr(q.answers)
                /\ Get(sessions[i], "perQuestionSec")
                      = Arr([j \in 1..Len(q.perQSec) |-> Num(q.perQSec[j])])

\* C28: every submission, by the dialog or by the tick that finds the
\* deadline passed, stores the answers and the seconds per question the
\* state held when it happened.
SubmitWritesState ==
    [][(view = "solve" /\ view' = "mark") => WrittenFrom(quiz, StoredNext)]_vars

\* the ids of the list q are pairwise different
DistinctIds(q) ==
    \A i, j \in 1..Len(q) : i # j => Get(q[i], "id") # Get(q[j], "id")

\* C29: while the store has only seen well-formed upsertSession calls and
\* removeSession calls since it was empty, no two sessions of the persisted
\* store have the same id.
NoDuplicateIds == created.on => DistinctIds(Stored)

\* an upsertSession for an id the store held already, next to another session
ReplacedAmongTwoSeen ==
    /\ created.on
    /\ last.op = "upsertSession"
    /\ last.cur # Null
    /\ last.fn.s.v.id \in IdsIn(SessionsOf(last.cur))
    /\ Len(Stored) >= 2

\* the slots as the loadStore that begins the last call left them
AfterLoad == loadStore(last.p0, last.b0, {})

\* C30: on a storage whose writes succeed, once a first call has returned
\* the primary slot holds a text that parses to a value sanitize accepts,
\* after the loadStore that begins each call and when the call returns, and
\* whatever a call put into the primary or the backup slot is such a text.
SlotsWrittenValid ==
    last.op # "none" =>
        /\ HoldsStore(AfterLoad.p)
        /\ AfterLoad.b # last.b0 => HoldsStore(AfterLoad.b)
        /\ HoldsStore(primary)
        /\ backup # AfterLoad.b => HoldsStore(backup)

\* an upsertSession on two unparsable slots: both hold a Store afterwards,
\* the primary with the session
GarbageReplacedSeen ==
    /\ last.op = "upsertSession"
    /\ last.p0 = Garbage
    /\ last.b0 = Garbage
    /\ last.valid
    /\ HoldsStore(primary)
    /\ HoldsStore(backup)
    /\ Len(Stored) = 1

====
